---------------------------- MODULE Spec2Model ----------------------------
(***************************************************************************)
(* Model of the lazy attribute core of manim3 (src/manim3/lazy):           *)
(* Registered handles, Registration (weak-value registry), Cache (bounded, *)
(* weak-key), Tree, LazyDescriptor.get_elements / set_elements, and the    *)
(* slot and object layer the descriptors work on.                          *)
(*                                                                         *)
(* Objects of the modelled program: every value object (array, buffer) has *)
(* an address, the result of id(); instances of the lazy class have the    *)
(* addresses 1..CopyId and value objects the addresses above CopyId.       *)
(* Reclamation is CPython's: a Registered handle disappears from its weak  *)
(* table as soon as no slot and no cache entry references it.              *)
(***************************************************************************)
EXTENDS Integers, Sequences, FiniteSets, TLC

(* ----------------------------- bounds ---------------------------------- *)

\* number of instances of the lazy class that can be constructed
NumObjs == 2

\* contents a caller writes to the content-hashed Variable are 0..MaxVal
MaxVal == 1

\* capacity of every descriptor's Cache (cache_capacity of LazyDescriptor.__init__)
CacheCapacity == 1

\* the stand-alone Cache of SpecCache: its capacity and the number of keys
UnitCapacity == 2
NumKeys == 4

\* the instances a constructor call can create, the instance a copy creates
\* and all of them
Objs == 1..NumObjs
CopyId == NumObjs + 1
AllObjs == Objs \cup {CopyId}
Vals == 0..MaxVal

(* ------------------------ the declared class --------------------------- *)
\* One lazy class, shaped like Box / Model of animatables/models/model.py:
\*   _v_  Variable, content-hashed (Lazy.variable(hasher=Lazy.array_hasher))
\*   _c_  Variable holding another instance (like Model._model_matrix_)
\*   _p_  Property of _v_, content-hashed (like Box._centroid_)
\*   _r_  Property with the chain c__p (like Model._model_uniform_block_buffer_
\*        with its chain model_matrix__array), identity-hashed, not frozen
Descs == {"v", "c", "p", "r"}

\* LazyDescriptor._is_variable
IsVariable(d) == d \in {"v", "c"}

\* LazyDescriptor._is_plural (LazySingularDescriptor: False)
IsPlural(d) == FALSE

\* LazyDescriptor._parameter_name_chains: one chain of names per parameter
ParameterNameChains(d) ==
    CASE d = "p" -> << <<"v">> >>
      [] d = "r" -> << <<"c", "p">> >>
      [] OTHER   -> << >>

\* LazyDescriptor._freeze: off for the identity-hashed Property _r_ (the
\* constructor asserts: hasher is id or freeze) and for the Variable _u_ of
\* the class of the default values below (Lazy.variable(freeze=False))
Freeze(d) == d \notin {"r", "u"}

\* LazyDescriptor._hasher: the content (array_hasher) or the address (id)
Hasher(d, value) == IF d \in {"v", "p"} THEN value.val ELSE value.addr

\* LazyDescriptor._method applied to the argument contents: the default
\* factory of a Variable, the user function of a Property
Method(d, args) ==
    CASE d = "v" -> 0
      [] d = "p" -> (args[1] + 1) \div 2
      [] d = "r" -> args[1] + 10
      [] OTHER   -> 0

(* ------------------------ Registered, Registration --------------------- *)
\* A Registered handle: the registry it lives in, the key it was registered
\* under and the wrapped value object (its address and content).
Registered(reg, key, value) ==
    [reg |-> reg, key |-> key, addr |-> value.addr, val |-> value.val]

\* Registered._value
ValueOf(h) == [addr |-> h.addr, val |-> h.val]

\* the two Registrations of a descriptor
ElementReg(d) == <<"element", d>>
ParameterKeyReg(d) == <<"parameter_key", d>>
RegNames == {ElementReg(d) : d \in Descs} \cup {ParameterKeyReg(d) : d \in Descs}

\* WeakValueDictionary.get(key): the handles the table holds under key
Lookup(table, key) == {h \in table : h.key = key}

\* Registration.register with the lookup left out: always a new handle
RegisterAlwaysNew(table, reg, key, value) ==
    LET new == Registered(reg, key, value)
    IN  [table |-> (table \ Lookup(table, key)) \cup {new}, handle |-> new]

\* Registration.register
Register(table, reg, key, value) ==
    LET found == Lookup(table, key)
    IN  IF found = {}
        THEN LET new == Registered(reg, key, value)
             IN  [table |-> table \cup {new}, handle |-> new]
        ELSE [table |-> table, handle |-> CHOOSE h \in found : TRUE]

(* ------------------------------- Cache --------------------------------- *)
\* A Cache is the sequence of its entries [key, value] in insertion order.
CacheKeys(c) == {c[i].key : i \in 1..Len(c)}

\* WeakKeyDictionary.get: a lookup, the order of the entries is not touched;
\* the set holding the value stored under key, empty on a miss
CacheGet(c, key) == {c[i].value : i \in {j \in 1..Len(c) : c[j].key = key}}

\* a lookup that moves the entry it hits to the end (least recently used
\* order)
CacheMoveToEnd(c, key) ==
    LET Other(entry) == entry.key # key
        Same(entry) == entry.key = key
    IN  SelectSeq(c, Other) \o SelectSeq(c, Same)

\* the Cache after get(key): a dict lookup leaves the insertion order alone
CacheAfterGet(c, key) == c

\* the assertion of Cache.set: key not in self
CacheSetAsserts(c, key) == key \notin CacheKeys(c)

\* Cache.set without the eviction
CacheSetNoEvict(c, capacity, key, value) == Append(c, [key |-> key, value |-> value])

\* Cache.set (precondition: key not in the cache)
CacheSet(c, capacity, key, value) ==
    LET kept == IF Len(c) = capacity THEN Tail(c) ELSE c
    IN  Append(kept, [key |-> key, value |-> value])

(* -------------------------------- Tree --------------------------------- *)
\* Tree.__init__: a leaf has no children (_children is None)
Tree(content) == [content |-> content, isleaf |-> TRUE, children |-> << >>]

RECURSIVE Concat(_)
Concat(seqs) == IF seqs = << >> THEN << >> ELSE Head(seqs) \o Concat(Tail(seqs))

\* Tree.iter_leaves: the leaves in depth-first order, each named by its path
\* (the child indices from the root)
RECURSIVE IterLeaves(_)
IterLeaves(tree) ==
    IF ~tree.isleaf
    THEN Concat([i \in 1..Len(tree.children) |->
                    [j \in 1..Len(IterLeaves(tree.children[i])) |->
                        <<i>> \o IterLeaves(tree.children[i])[j]]])
    ELSE << << >> >>

RECURSIVE TreeAt(_, _)
TreeAt(tree, path) ==
    IF path = << >> THEN tree ELSE TreeAt(tree.children[Head(path)], Tail(path))

RECURSIVE TreeReplace(_, _, _)
TreeReplace(tree, path, leaf) ==
    IF path = << >> THEN leaf
    ELSE [tree EXCEPT !.children[Head(path)] = TreeReplace(@, Tail(path), leaf)]

\* Tree.convert(id).as_tuple_tree() (byId) and Tree.as_tuple_tree(): internal
\* nodes become tuples, a leaf becomes the address or the content of its value
RECURSIVE AsTupleTree(_, _)
AsTupleTree(tree, byId) ==
    IF ~tree.isleaf
    THEN [i \in 1..Len(tree.children) |-> AsTupleTree(tree.children[i], byId)]
    ELSE IF byId THEN tree.content.addr ELSE tree.content.val

(* ------------------------------ LazySlot ------------------------------- *)
\* a slot is named by <<instance, descriptor name>>
SlotIds == AllObjs \X Descs

\* an empty slot: no elements (populated is FALSE: _elements is None), no
\* parameter key (the empty set: _parameter_key is None), no links
EmptySlot ==
    [populated |-> FALSE, elements |-> << >>, parameter_key |-> {},
     associated_slots |-> {}]

\* LazySlot.iter_associated_slots
IterAssociatedSlots(slots, s) == slots[s].associated_slots

\* LazySlot.set: populate the slot and record the link on both sides
SlotSet(slots, s, elements, parameter_key, associated_slots) ==
    [t \in SlotIds |->
        IF t = s
        THEN [populated |-> TRUE, elements |-> elements,
              parameter_key |-> parameter_key,
              associated_slots |-> associated_slots]
        ELSE IF t \in associated_slots
             THEN [slots[t] EXCEPT !.associated_slots = @ \cup {s}]
             ELSE slots[t]]

\* LazySlot.expire: back to empty, the links of the slot are released
SlotExpire(slots, s) ==
    [t \in SlotIds |->
        IF t = s THEN EmptySlot
        ELSE [slots[t] EXCEPT !.associated_slots = @ \ {s}]]

\* LazySlot.check_writability: TRUE when the write may proceed
CheckWritability(s) == IsVariable(s[2])

(* --------------------------- reclamation ------------------------------- *)
\* What the weak tables still hold once every local reference is gone: a
\* parameter key handle lives while a slot holds it, a Cache entry lives
\* while its key does (WeakKeyDictionary), an element handle lives while a
\* slot or a Cache entry holds it (WeakValueDictionary).
RangeOf(seq) == {seq[i] : i \in 1..Len(seq)}

LiveParameterKeys(slots, d) ==
    UNION {slots[<<o, d>>].parameter_key : o \in AllObjs}

LiveElements(slots, c, d) ==
    UNION {RangeOf(slots[<<o, d>>].elements) : o \in AllObjs}
        \cup UNION {RangeOf(c[i].value) : i \in 1..Len(c)}

Collect(st) ==
    LET KeyLives(d, entry) == entry.key \in LiveParameterKeys(st.slots, d)
        cache1 == [d \in Descs |->
                      LET Keep(entry) == KeyLives(d, entry)
                      IN  SelectSeq(st.cache[d], Keep)]
    IN  [st EXCEPT
            !.cache = cache1,
            !.registry = [n \in RegNames |->
                IF n[1] = "element"
                THEN st.registry[n] \cap LiveElements(st.slots, cache1[n[2]], n[2])
                ELSE st.registry[n] \cap LiveParameterKeys(st.slots, n[2])]]

\* The object allocator.  Addresses are only ever compared for equality (as
\* hash keys and inside parameter keys), so which free address a new object
\* gets makes no difference as long as no live parameter key still mentions
\* the address of a dead object (NoDanglingAddress below).  The allocator
\* therefore gives a new object the address reserved for its descriptor and
\* content (for an identity-hashed result: its descriptor and the instance
\* that computes it) when that is free, and the lowest free address above
\* the reserved ones otherwise.
UsedAddrs(st) ==
    UNION {{h.addr : h \in st.registry[ElementReg(d)]
                        \cup LiveElements(st.slots, st.cache[d], d)} : d \in Descs}

ReservedAddr(d, instance, content) ==
    CASE d = "v" -> CopyId + 1 + content
      [] d = "p" -> CopyId + 1 + (MaxVal + 1) + content
      [] OTHER   -> CopyId + 1 + 2 * (MaxVal + 1) + instance

OverflowBase == 2 * CopyId + 2 * (MaxVal + 1) + 2

Alloc(st, d, instance, content) ==
    LET used == UsedAddrs(st)
    IN  IF ReservedAddr(d, instance, content) \notin used
        THEN ReservedAddr(d, instance, content)
        ELSE CHOOSE a \in OverflowBase..(OverflowBase + Cardinality(used)) :
                /\ a \notin used
                /\ \A b \in OverflowBase..(a - 1) : b \in used

(* ---------------------------- LazyDescriptor --------------------------- *)
\* LazySingularDescriptor._decomposer / LazyPluralDescriptor._decomposer
Decomposer(d, data) == IF IsPlural(d) THEN data ELSE <<data>>

\* LazySingularDescriptor._composer / LazyPluralDescriptor._composer
Composer(d, elements) == IF IsPlural(d) THEN elements ELSE elements[1]

\* LazyDescriptor._register_parameter_key
RegisterParameterKey(table, d, parameter_key) ==
    Register(table, ParameterKeyReg(d), parameter_key, [addr |-> 0, val |-> parameter_key])

\* LazyDescriptor._register_elements: every element is registered under its
\* hash key, in order (freezing changes no content)
RECURSIVE RegisterElements(_, _, _)
RegisterElements(table, d, elements) ==
    IF elements = << >> THEN [table |-> table, handles |-> << >>]
    ELSE LET first == Register(table, ElementReg(d), Hasher(d, Head(elements)), Head(elements))
             rest == RegisterElements(first.table, d, Tail(elements))
         IN  [table |-> rest.table, handles |-> <<first.handle>> \o rest.handles]

\* the values a populated slot returns: registered_element._value of each
Values(handles) == [i \in 1..Len(handles) |-> ValueOf(handles[i])]

RECURSIVE GetElements(_, _, _)
RECURSIVE WalkLeaves(_, _, _)
RECURSIVE WalkNames(_, _)
RECURSIVE WalkChains(_, _, _, _, _)

\* the property step that records nothing: only Variables named in the
\* chain itself get associated
OnlyDirectVariables(slots, slot) ==
    IF IsVariable(slot[2]) THEN {slot} ELSE {}

\* a step that records the slot it read, whatever its kind
AssociatedOfSlotItself(slots, slot) == {slot}

\* what one chain step adds to associated_variable_slots: the slot of a
\* Variable, the slots associated with the slot of a Property
AssociatedOf(slots, slot) ==
    IF IsVariable(slot[2]) THEN {slot} ELSE IterAssociatedSlots(slots, slot)

\* the body of the innermost loop of
\* get_parameter_trees_and_associated_variable_slots: one leaf of one step
VisitLeaf(acc, name, path) ==
    LET leaf == TreeAt(acc.tree, path)
        leaf_content == leaf.content.addr
        slot == <<leaf_content, name>>
        got == GetElements(acc.st, leaf_content, name)
        newleaf ==
            IF IsPlural(name)
            THEN [leaf EXCEPT !.isleaf = FALSE,
                              !.children = [i \in 1..Len(got.elements) |-> Tree(got.elements[i])]]
            ELSE [leaf EXCEPT !.content = got.elements[1]]
        found == AssociatedOf(got.st.slots, slot)
    IN  [st |-> got.st, tree |-> TreeReplace(acc.tree, path, newleaf),
         associated_variable_slots |-> acc.associated_variable_slots \cup found]

\* for leaf in tree.iter_leaves(): the leaves present when the step starts
WalkLeaves(acc, name, paths) ==
    IF paths = << >> THEN acc
    ELSE WalkLeaves(VisitLeaf(acc, name, Head(paths)), name, Tail(paths))

\* for name in parameter_name_chain
WalkNames(acc, chain) ==
    IF chain = << >> THEN acc
    ELSE WalkNames(WalkLeaves(acc, Head(chain), IterLeaves(acc.tree)), Tail(chain))

\* get_parameter_trees_and_associated_variable_slots: one tree per chain,
\* each starting as Tree(instance)
WalkChains(st, instance, chains, trees, associated_variable_slots) ==
    IF chains = << >>
    THEN [st |-> st, trees |-> trees, associated_variable_slots |-> associated_variable_slots]
    ELSE LET acc == WalkNames([st |-> st,
                               tree |-> Tree([addr |-> instance, val |-> instance]),
                               associated_variable_slots |-> associated_variable_slots],
                              Head(chains))
         IN  WalkChains(acc.st, instance, Tail(chains), Append(trees, acc.tree),
                        acc.associated_variable_slots)

\* every computed result inserted into the Cache
CachesResultAlways(d) == TRUE

\* the test of get_elements before self._cache.set: if self._freeze
CachesResult(d) == Freeze(d)

\* a lookup that never finds an entry
CacheLookupMiss(w, d, key) == {}

\* the Cache lookup of get_elements: self._cache.get(registered_parameter_key)
CacheLookup(w, d, key) == CacheGet(w.st.cache[d], key)

\* links recorded only when the method was invoked
AssociatedOnMissOnly(w, hit) == IF hit # {} THEN {} ELSE w.associated_variable_slots

\* the associated_slots argument of slot.set in get_elements: the set the
\* walk collected, whether the Cache held the result or not
AssociatedSlotsSet(w, hit) == w.associated_variable_slots

\* LazyDescriptor.get_elements
GetElements(st, instance, d) ==
    LET slot == <<instance, d>>
    IN  IF st.slots[slot].populated
        THEN [st |-> st, elements |-> Values(st.slots[slot].elements)]
        ELSE
        LET w == WalkChains(st, instance, ParameterNameChains(d), << >>, {})
            parameter_key == [i \in 1..Len(w.trees) |-> AsTupleTree(w.trees[i], TRUE)]
            kreg == RegisterParameterKey(w.st.registry[ParameterKeyReg(d)], d, parameter_key)
            hit == CacheLookup(w, d, kreg.handle)
            args == [i \in 1..Len(w.trees) |-> AsTupleTree(w.trees[i], FALSE)]
            content == Method(d, args)
            data == [addr |-> Alloc(w.st, d, instance, content), val |-> content]
            ereg == RegisterElements(w.st.registry[ElementReg(d)], d, Decomposer(d, data))
            registered_elements == IF hit # {} THEN CHOOSE e \in hit : TRUE ELSE ereg.handles
            st1 == IF hit # {}
                   THEN [w.st EXCEPT !.registry[ParameterKeyReg(d)] = kreg.table,
                                     !.cache[d] = CacheAfterGet(@, kreg.handle)]
                   ELSE [w.st EXCEPT
                            !.registry[ParameterKeyReg(d)] = kreg.table,
                            !.registry[ElementReg(d)] = ereg.table,
                            !.calls[d] = @ + 1,
                            !.asserted = IF CachesResult(d)
                                         THEN @ /\ CacheSetAsserts(w.st.cache[d], kreg.handle)
                                         ELSE @,
                            !.cache[d] = IF CachesResult(d)
                                         THEN CacheSet(CacheAfterGet(@, kreg.handle),
                                                       CacheCapacity, kreg.handle, ereg.handles)
                                         ELSE CacheAfterGet(@, kreg.handle)]
            st2 == [st1 EXCEPT !.slots = SlotSet(@, slot, registered_elements, {kreg.handle},
                                               AssociatedSlotsSet(w, hit))]
        IN  [st |-> Collect(st2), elements |-> Values(registered_elements)]

\* the loop of set_elements over slot.iter_associated_slots()
RECURSIVE ExpireAll(_, _)
ExpireAll(slots, expired) ==
    IF expired = {} THEN slots
    ELSE LET s == CHOOSE t \in expired : TRUE
         IN  ExpireAll(SlotExpire(slots, s), expired \ {s})

\* set_elements without the expiry of the associated property slots
NoExpiry(slots, expired) == slots

\* an expiry that empties every populated Property slot of every instance
ExpireEveryProperty(slots, expired) ==
    ExpireAll(slots, {t \in SlotIds : ~IsVariable(t[2]) /\ slots[t].populated})

\* an expiry that follows the links of the expired slots back: the Variable
\* slots recorded on them are emptied as well
ExpireWithVariables(slots, expired) ==
    ExpireAll(slots, expired \cup UNION {slots[t].associated_slots : t \in expired})

\* the expiry step of set_elements
ExpireAssociated(slots, expired) == ExpireAll(slots, expired)

\* set_elements without the early return
ReturnsEarlyNever(st, instance, d, elements) == FALSE

\* the test of set_elements: registered_elements == slot.get()
ReturnsEarly(st, instance, d, elements) ==
    /\ st.slots[<<instance, d>>].populated
    /\ RegisterElements(st.registry[ElementReg(d)], d, elements).handles
            = st.slots[<<instance, d>>].elements

\* LazyDescriptor.set_elements, for a slot that passed check_writability
SetElements(st, instance, d, elements) ==
    LET slot == <<instance, d>>
        ereg == RegisterElements(st.registry[ElementReg(d)], d, elements)
        st1 == [st EXCEPT !.registry[ElementReg(d)] = ereg.table]
    IN  IF ReturnsEarly(st, instance, d, elements)
        THEN Collect(st1)
        ELSE Collect([st1 EXCEPT !.slots =
                SlotSet(ExpireAssociated(@, IterAssociatedSlots(st.slots, slot)),
                        slot, ereg.handles, {}, {})])

\* set_elements without the writability check
SetElementsUnchecked(st, instance, d, elements) ==
    [raised |-> FALSE, st |-> SetElements(st, instance, d, elements)]

\* LazyDescriptor.set_elements as a whole: slot.check_writability() comes
\* first and raises for the slot of a Property, before anything is
\* registered or expired
TrySetElements(st, instance, d, elements) ==
    IF CheckWritability(<<instance, d>>)
    THEN [raised |-> FALSE, st |-> SetElements(st, instance, d, elements)]
    ELSE [raised |-> TRUE, st |-> st]

\* LazyDescriptor.__delete__ with the slot emptied instead of the raise
DeleteExpires(st, instance, d) ==
    [raised |-> FALSE, st |-> [st EXCEPT !.slots = SlotExpire(@, <<instance, d>>)]]

\* LazyDescriptor.__delete__: raises TypeError, whatever the slot holds
Delete(st, instance, d) == [raised |-> TRUE, st |-> st]

\* the Variables of the class, in the order copy goes through them
VariableDescs == <<"c", "v">>

\* a copy that also takes over the links of the source's slots
RECURSIVE CopyWithLinks(_, _, _, _)
CopyWithLinks(st, source, result, ds) ==
    IF ds = << >> THEN st
    ELSE LET d == Head(ds)
             got == GetElements(st, source, d)
             put == SetElements(got.st, result, d, got.elements)
             linked == [put EXCEPT !.slots[<<result, d>>].associated_slots =
                            put.slots[<<source, d>>].associated_slots]
         IN  CopyWithLinks(linked, source, result, Tail(ds))

\* LazyObject.copy: the new instance gets, for every Variable, the elements
\* the source holds (so the same Registered handles), in slots of its own
\* with no links; its Property slots start empty
RECURSIVE CopyObject(_, _, _, _)
CopyObject(st, source, result, ds) ==
    IF ds = << >> THEN st
    ELSE LET d == Head(ds)
             got == GetElements(st, source, d)
             put == SetElements(got.st, result, d, got.elements)
         IN  CopyObject(put, source, result, Tail(ds))

(* ------------------------- what the chains denote ---------------------- *)
\* The reference the reads are compared with: the value an attribute has by
\* its declaration (the content of a Variable, its default when it was never
\* written; the user function of a Property applied to what its chains
\* reach), evaluated on the Variable slots alone, without caches or links.
PropertySlots == {s \in SlotIds : ~IsVariable(s[2])}
VariableSlots == {s \in SlotIds : IsVariable(s[2])}

RECURSIVE Denotes(_, _, _)
RECURSIVE DenotesChain(_, _, _)
DenotesChain(slots, instance, chain) ==
    IF chain = << >> THEN instance
    ELSE DenotesChain(slots, Denotes(slots, instance, Head(chain)), Tail(chain))

Denotes(slots, instance, d) ==
    IF IsVariable(d)
    THEN IF slots[<<instance, d>>].populated
         THEN slots[<<instance, d>>].elements[1].val
         ELSE Method(d, << >>)
    ELSE Method(d, [i \in 1..Len(ParameterNameChains(d)) |->
                        DenotesChain(slots, instance, ParameterNameChains(d)[i])])

\* the Variable slots an attribute depends on through its chains
RECURSIVE DependsOn(_, _, _)
RECURSIVE DependsOnChain(_, _, _)
DependsOnChain(slots, instance, chain) ==
    IF chain = << >> THEN {}
    ELSE DependsOn(slots, instance, Head(chain))
            \cup DependsOnChain(slots, Denotes(slots, instance, Head(chain)), Tail(chain))

DependsOn(slots, instance, d) ==
    IF IsVariable(d) THEN {<<instance, d>>}
    ELSE UNION {DependsOnChain(slots, instance, ParameterNameChains(d)[i]) :
                    i \in 1..Len(ParameterNameChains(d))}

(* ------------------------------- state --------------------------------- *)
VARIABLES
    objs,       \* the instances constructed so far
    slots,      \* every instance's slot of every descriptor
    registry,   \* the two Registrations of every descriptor
    cache,      \* the Cache of every descriptor
    last,       \* the last operation: op ("init", "new", "read": of a
                \* Property, "read_variable", "write": the slot was set,
                \* "write_same": set_elements returned early, "write_error":
                \* check_writability raised, "delete_error": __delete__
                \* raised) and what it did: the number of
                \* method invocations (calls), of slots it populated and of
                \* slots it emptied (expired)
    readset     \* per populated Property slot: the Variable slots its
                \* chains reached when it was populated

coreVars == <<objs, slots, registry, cache, last, readset>>

NoCalls == [d \in Descs |-> 0]

Current == [slots |-> slots, registry |-> registry, cache |-> cache,
            calls |-> NoCalls, asserted |-> TRUE]

\* the constructor: __init__ assigns the child (self when none is given)
\* through the descriptor's __set__, as Box.__init__ assigns its Variables
Construct(st, instance, child) ==
    SetElements(st, instance, "c", Decomposer("c", [addr |-> child, val |-> child]))

InitState ==
    Construct([slots |-> [s \in SlotIds |-> EmptySlot],
               registry |-> [n \in RegNames |-> {}],
               cache |-> [d \in Descs |-> << >>],
               calls |-> NoCalls, asserted |-> TRUE], 1, 1)

CoreInit ==
    /\ objs = {1}
    /\ slots = InitState.slots
    /\ registry = InitState.registry
    /\ cache = InitState.cache
    /\ last = [op |-> "init", calls |-> 0, populated |-> 1, expired |-> 0]
    /\ readset = [s \in PropertySlots |-> {}]

\* the sum of the method invocations of an operation
RECURSIVE SumCalls(_, _)
SumCalls(calls, ds) ==
    IF ds = {} THEN 0
    ELSE LET d == CHOOSE x \in ds : TRUE IN calls[d] + SumCalls(calls, ds \ {d})

\* the state an operation leaves, with the bookkeeping of the history
Commit(st, op) ==
    /\ slots' = st.slots
    /\ registry' = st.registry
    /\ cache' = st.cache
    /\ last' = [op |-> op, calls |-> SumCalls(st.calls, Descs),
                populated |-> Cardinality({s \in SlotIds :
                                  ~slots[s].populated /\ st.slots[s].populated}),
                expired |-> Cardinality({s \in SlotIds :
                                  slots[s].populated /\ ~st.slots[s].populated})]
    /\ readset' = [s \in PropertySlots |->
                    IF ~st.slots[s].populated THEN {}
                    ELSE IF slots[s].populated THEN readset[s]
                    ELSE DependsOn(st.slots, s[1], s[2])]

\* instance = K(child)
New(instance, child) ==
    /\ instance \notin objs
    /\ instance = Cardinality(objs) + 1
    /\ child \in objs \cup {instance}
    /\ objs' = objs \cup {instance}
    /\ Commit(Construct(Current, instance, child), "new")

\* instance.d: LazyDescriptor.__get__
Read(instance, d) ==
    /\ instance \in objs
    /\ Commit(GetElements(Current, instance, d).st,
              IF IsVariable(d) THEN "read_variable" ELSE "read")
    /\ UNCHANGED objs

\* instance.d = data for a Variable: LazyDescriptor.__set__
Write(instance, d, data) ==
    /\ instance \in objs
    /\ ~TrySetElements(Current, instance, d, Decomposer(d, data)).raised
    /\ Commit(TrySetElements(Current, instance, d, Decomposer(d, data)).st,
              IF ReturnsEarly(Current, instance, d, Decomposer(d, data))
              THEN "write_same" ELSE "write")
    /\ UNCHANGED objs

\* instance.d = data for a Property: set_elements raises
WriteReadOnly(instance, d, data) ==
    /\ instance \in objs
    /\ TrySetElements(Current, instance, d, Decomposer(d, data)).raised
    /\ Commit(TrySetElements(Current, instance, d, Decomposer(d, data)).st, "write_error")
    /\ UNCHANGED objs

\* del instance.d: LazyDescriptor.__delete__
DeleteAttribute(instance, d) ==
    /\ instance \in objs
    /\ Delete(Current, instance, d).raised
    /\ Commit(Delete(Current, instance, d).st, "delete_error")
    /\ UNCHANGED objs

\* result = source.copy()
Copy(source, result) ==
    /\ source \in objs
    /\ result \notin objs
    /\ objs' = objs \cup {result}
    /\ Commit(CopyObject(Current, source, result, VariableDescs), "copy")

\* what a caller can assign: a new array with some content to _v_ (and, in
\* an attempt to write a Property, to _p_), an existing instance otherwise
Inputs(instance, d) ==
    IF d \in {"v", "p"} THEN {[addr |-> Alloc(Current, d, instance, x), val |-> x] : x \in Vals}
    ELSE {[addr |-> x, val |-> x] : x \in objs}

CoreNext ==
    \/ \E instance \in Objs, child \in Objs : New(instance, child)
    \/ \E instance \in Objs, d \in Descs : Read(instance, d)
    \/ \E instance \in Objs, d \in Descs : \E data \in Inputs(instance, d) : Write(instance, d, data)
    \/ \E instance \in Objs, d \in Descs : \E data \in Inputs(instance, d) :
            WriteReadOnly(instance, d, data)
    \/ \E instance \in Objs, d \in Descs : DeleteAttribute(instance, d)

(* ------------------------- the Cache on its own ------------------------ *)
\* A single Cache object driven directly: set with a key it does not hold,
\* get with any key, and the death of a key object (the table is weak-keyed).
VARIABLES
    ucache,     \* the entries [key, value] in insertion order
    ulast,      \* the last call: op, key, the result of a get, and the
                \* entries the call removed
    uhit        \* the key of the most recent get that hit an entry still
                \* present (0: none)

unitVars == <<ucache, ulast, uhit>>

Keys == 1..NumKeys

UnitInit ==
    /\ ucache = << >>
    /\ ulast = [op |-> "init", key |-> 0, result |-> {}, removed |-> {}, recent |-> 0]
    /\ uhit = 0

\* cache.set(key, value)
UnitSet(key) ==
    /\ key \notin CacheKeys(ucache)
    /\ ucache' = CacheSet(ucache, UnitCapacity, key, key * 10)
    /\ ulast' = [op |-> "set", key |-> key, result |-> {},
                 removed |-> CacheKeys(ucache) \ CacheKeys(ucache'), recent |-> uhit]
    /\ uhit' = IF uhit \in CacheKeys(ucache') THEN uhit ELSE 0

\* cache.get(key)
UnitGet(key) ==
    /\ ucache' = CacheAfterGet(ucache, key)
    /\ ulast' = [op |-> "get", key |-> key, result |-> CacheGet(ucache, key),
                 removed |-> {}, recent |-> uhit]
    /\ uhit' = IF CacheGet(ucache, key) # {} THEN key ELSE uhit

\* the key object is collected: WeakKeyDictionary drops its entry
UnitKeyDies(key) ==
    /\ key \in CacheKeys(ucache)
    /\ LET Other(entry) == entry.key # key
       IN  ucache' = SelectSeq(ucache, Other)
    /\ ulast' = [op |-> "die", key |-> key, result |-> {}, removed |-> {key},
                 recent |-> uhit]
    /\ uhit' = IF uhit = key THEN 0 ELSE uhit

UnitNext ==
    \/ \E key \in Keys : UnitSet(key)
    \/ \E key \in Keys : UnitGet(key)
    \/ \E key \in Keys : UnitKeyDies(key)

(* ------------------------------ copies --------------------------------- *)
\* Instance 1 is the child, instance 2 is constructed on it and copied; the
\* copy and its source are read and have their _v_ written, and so has the
\* child they share.
CopySource == 2

CopyNext ==
    \/ New(CopySource, 1)
    \/ Copy(CopySource, CopyId)
    \/ \E instance \in AllObjs, d \in Descs : Read(instance, d)
    \/ \E instance \in AllObjs : \E data \in Inputs(instance, "v") : Write(instance, "v", data)

(* ----------------------------- declarations ---------------------------- *)
\* The body of a class that declares lazy attributes, the definition of the
\* class, and the reads of an instance of it.  A string is the sequence of
\* its characters.
MethodNames ==
    {<<"_", "a", "_">>, <<"_", "b", "_">>, <<"a", "_">>,
     <<"_", "a", "_", "_", "b", "_">>}

\* the names a well-formed method name can give a descriptor
DeclNames == {<<"_", "a", "_">>, <<"_", "b", "_">>}

\* the parameter names of a method: a, x, a__b, b__x and b
ParameterNames ==
    {<<"a">>, <<"x">>, <<"a", "_", "_", "b">>, <<"b", "_", "_", "x">>}

ArgLists == {<< >>, << <<"a">>, <<"b">> >>} \cup {<<n>> : n \in ParameterNames}

HasherChoices == {"id", "content"}

\* name.startswith("_"), name.endswith("_"), "__" in name
StartsWithUnderscore(name) == name # << >> /\ name[1] = "_"
EndsWithUnderscore(name) == name # << >> /\ name[Len(name)] = "_"
ContainsDunder(name) == \E i \in 1..(Len(name) - 1) : name[i] = "_" /\ name[i + 1] = "_"

\* parameter_name.split("__"): cut at every "__", from the left; current is
\* the piece being read
RECURSIVE SplitDunder(_, _)
SplitDunder(rest, current) ==
    IF rest = << >> THEN <<current>>
    ELSE IF Len(rest) >= 2 /\ rest[1] = "_" /\ rest[2] = "_"
         THEN <<current>> \o SplitDunder(SubSeq(rest, 3, Len(rest)), << >>)
         ELSE SplitDunder(Tail(rest), Append(current, Head(rest)))

\* tuple(f"_{name_body}_" for name_body in parameter_name.split("__"))
NameChain(parameter_name) ==
    LET bodies == SplitDunder(parameter_name, << >>)
    IN  [i \in 1..Len(bodies) |-> <<"_">> \o bodies[i] \o <<"_">>]

\* no assertion on the parameters at all
ArityAssertNone(is_variable, chains) == TRUE

\* the assertions of the former descriptors: a Variable takes no parameter
\* and a Property takes at least one
ArityAssertLegacy(is_variable, chains) ==
    IF is_variable THEN chains = << >> ELSE chains # << >>

\* assert not is_variable or not parameter_name_chains
ArityAssert(is_variable, chains) == ~is_variable \/ chains = << >>

\* LazyDescriptor.__init__: raised when one of its assertions fails, the
\* descriptor otherwise
DescriptorInit(method, is_variable, hasher, freeze) ==
    LET name == method.name
        parameter_name_chains == [i \in 1..Len(method.args) |-> NameChain(method.args[i])]
        passed == /\ method.is_static
                  /\ (hasher = "id" \/ freeze)
                  /\ StartsWithUnderscore(name) /\ EndsWithUnderscore(name)
                  /\ ~ContainsDunder(name)
                  /\ ArityAssert(is_variable, parameter_name_chains)
    IN  [raised |-> ~passed,
         descriptor |-> [name |-> name, parameter_name_chains |-> parameter_name_chains,
                         is_variable |-> is_variable, hasher |-> hasher,
                         freeze |-> freeze]]

\* the steps of all chains of a descriptor, in the order a read walks them
StepsOf(descriptor) == Concat(descriptor.parameter_name_chains)

\* a class definition that resolves nothing
ClassResolvesAnything(ds) == TRUE

\* the definition of the class: every step of every chain of every declared
\* descriptor names a declared descriptor.  A Property without parameters is
\* accepted, as Model._local_sample_positions_ is.
ClassResolves(ds) ==
    \A n \in DeclNames : \A descriptor \in ds[n] :
        \A i \in 1..Len(StepsOf(descriptor)) :
            /\ StepsOf(descriptor)[i] \in DeclNames
            /\ ds[StepsOf(descriptor)[i]] # {}

\* what the first read of the attribute name of a new instance meets while
\* it walks the chains: "unresolved" when _get_slot finds no descriptor of a
\* step's name, "recursion" when a chain leads back to an attribute being
\* read, "ok" otherwise
RECURSIVE ReadOutcome(_, _, _)
RECURSIVE WalkSteps(_, _, _)
WalkSteps(ds, steps, reading) ==
    IF steps = << >> THEN "ok"
    ELSE LET step == Head(steps)
             here == IF step \notin DeclNames THEN "unresolved"
                     ELSE IF ds[step] = {} THEN "unresolved"
                     ELSE IF step \in reading THEN "recursion"
                     ELSE ReadOutcome(ds, step, reading)
         IN  IF here # "ok" THEN here ELSE WalkSteps(ds, Tail(steps), reading)

ReadOutcome(ds, name, reading) ==
    LET descriptor == CHOOSE x \in ds[name] : TRUE
    IN  WalkSteps(ds, StepsOf(descriptor), reading \cup {name})

VARIABLES
    decls,      \* per name, the descriptor the class body has bound to it
                \* (a set of at most one)
    klass,      \* "open": the body is running, "defined", "rejected": the
                \* body or the definition raised
    dlast       \* the last step: op ("init", "declare", "define", "read"),
                \* whether it raised, the declaration attempted (is_variable,
                \* nparams, is_static, hasher, freeze, name) and the outcome
                \* of a read

declVars == <<decls, klass, dlast>>

\* a step that is not a declaration
NoDeclaration(op, raised, name, outcome) ==
    [op |-> op, raised |-> raised, is_variable |-> FALSE, nparams |-> 0,
     is_static |-> TRUE, hasher |-> "id", freeze |-> TRUE, name |-> name,
     outcome |-> outcome]

DeclInit ==
    /\ decls = [n \in DeclNames |-> {}]
    /\ klass = "open"
    /\ dlast = NoDeclaration("init", FALSE, << >>, "none")

\* one decorated method in the class body
Declare(method, is_variable, hasher, freeze) ==
    /\ klass = "open"
    /\ LET made == DescriptorInit(method, is_variable, hasher, freeze)
       IN  /\ decls' = IF made.raised THEN decls
                       ELSE [decls EXCEPT ![method.name] = {made.descriptor}]
           /\ klass' = IF made.raised THEN "rejected" ELSE "open"
           /\ dlast' = [op |-> "declare", raised |-> made.raised,
                        is_variable |-> is_variable, nparams |-> Len(method.args),
                        is_static |-> method.is_static, hasher |-> hasher,
                        freeze |-> freeze, name |-> method.name,
                        outcome |-> "none"]

\* the end of the class body
DefineClass ==
    /\ klass = "open"
    /\ klass' = IF ClassResolves(decls) THEN "defined" ELSE "rejected"
    /\ dlast' = NoDeclaration("define", ~ClassResolves(decls), << >>, "none")
    /\ UNCHANGED decls

\* the first read of an attribute of a new instance of the defined class
ReadDeclared(name) ==
    /\ klass = "defined"
    /\ decls[name] # {}
    /\ dlast' = NoDeclaration("read", ReadOutcome(decls, name, {}) # "ok", name,
                               ReadOutcome(decls, name, {}))
    /\ UNCHANGED <<decls, klass>>

Methods == [name : MethodNames, args : ArgLists, is_static : BOOLEAN]

DeclNext ==
    \/ \E method \in Methods, is_variable \in BOOLEAN, hasher \in HasherChoices,
          freeze \in BOOLEAN : Declare(method, is_variable, hasher, freeze)
    \/ DefineClass
    \/ \E name \in DeclNames : ReadDeclared(name)

(* ------------------------------ tree walks ----------------------------- *)
\* The walk of one descriptor's parameter chains over objects with singular
\* and plural attributes, for two reads of the descriptor on two instances,
\* and the parameter keys the two reads register.
NumTreeObjs == 4
MaxChain == 2
NumChains == 2

TreeObjs == 1..NumTreeObjs

\* the attributes a chain step can name: _s_ is singular, _k_ and _m_ are
\* plural
TreeAttrs == {"s", "k", "m"}
IsPluralAttr(name) == name \in {"k", "m"}

\* descriptor.get_elements(leaf_content) for the object o: the elements of
\* its attribute (objects again; instances 1 and 2 share their _s_ and
\* their _m_)
AttrObjs(name, o) ==
    CASE name = "s" -> <<IF o <= 2 THEN 3 ELSE (o % NumTreeObjs) + 1>>
      [] name = "k" -> [i \in 1..(IF NumTreeObjs - o < 2 THEN NumTreeObjs - o ELSE 2) |-> o + i]
      [] OTHER      -> IF o <= 2 THEN <<3, NumTreeObjs>>
                       ELSE IF o < NumTreeObjs THEN <<NumTreeObjs>> ELSE << >>

ElementsOfAttr(name, o) ==
    [i \in 1..Len(AttrObjs(name, o)) |-> [addr |-> AttrObjs(name, o)[i], val |-> AttrObjs(name, o)[i]]]

\* the body of the loop over the leaves, for the leaf the generator yielded:
\* a plural step gives the leaf children, a singular step a new content
VisitTreeLeaf(acc, name, path) ==
    LET leaf == TreeAt(acc.tree, path)
        elements == ElementsOfAttr(name, leaf.content.addr)
        newleaf == IF IsPluralAttr(name)
                   THEN [leaf EXCEPT !.isleaf = FALSE,
                                     !.children = [i \in 1..Len(elements) |-> Tree(elements[i])]]
                   ELSE [leaf EXCEPT !.content = elements[1]]
    IN  [tree |-> TreeReplace(acc.tree, path, newleaf),
         visited |-> Append(acc.visited, path)]

RECURSIVE IterVisit(_, _, _)
RECURSIVE IterChildren(_, _, _, _, _)

\* a generator that looks at the leaf again after its yield and goes on
\* into the children the loop body gave it
AfterYieldDescends(acc, name, path) ==
    IF TreeAt(acc.tree, path).isleaf THEN acc
    ELSE IterChildren(acc, name, path, 1, Len(TreeAt(acc.tree, path).children))

\* Tree.iter_leaves after "yield self": the generator of the leaf is
\* exhausted
AfterYield(acc, name, path) == acc

\* for child in children: yield from child.iter_leaves(), over the tuple of
\* children read when the generator of the node started
IterChildren(acc, name, path, i, n) ==
    IF i > n THEN acc
    ELSE IterChildren(IterVisit(acc, name, Append(path, i)), name, path, i + 1, n)

\* Tree.iter_leaves driven by the loop of the walk: the generator of a node
\* reads _children when it starts; the loop body runs at every yield
IterVisit(acc, name, path) ==
    IF ~TreeAt(acc.tree, path).isleaf
    THEN IterChildren(acc, name, path, 1, Len(TreeAt(acc.tree, path).children))
    ELSE AfterYield(VisitTreeLeaf(acc, name, path), name, path)

\* one step of a chain on a tree: for leaf in tree.iter_leaves()
TreeStep(tree, name) == IterVisit([tree |-> tree, visited |-> << >>], name, << >>)

\* a key made of the leaves alone, in order
RECURSIVE TupleTreeLeaves(_)
TupleTreeLeaves(tree) ==
    IF ~tree.isleaf
    THEN Concat([i \in 1..Len(tree.children) |-> TupleTreeLeaves(tree.children[i])])
    ELSE <<tree.content.addr>>

\* tree.convert(id).as_tuple_tree(): AsTupleTree by address, with the
\* nesting of the tuples written out (-1 opens a tuple, -2 closes it) so
\* that keys of different shapes can be compared; the content of a node
\* with children is not part of it
RECURSIVE TupleTreeKey(_)
TupleTreeKey(tree) ==
    IF ~tree.isleaf
    THEN <<-1>> \o Concat([i \in 1..Len(tree.children) |-> TupleTreeKey(tree.children[i])])
               \o <<-2>>
    ELSE <<tree.content.addr>>

\* the parameter key of a read: one tuple tree per parameter
ParameterKeyOf(trees) == [i \in 1..Len(trees) |-> TupleTreeKey(trees[i])]

VARIABLES
    troots,     \* the two instances read (<<0, 0>>: no read yet)
    tchains,    \* the chains of the descriptor, as far as they are walked
    ttrees,     \* per read (1, 2), the tree of every chain
    tlast       \* the last step: the chain and the name walked, and per
                \* read the leaves visited, in order

treeVars == <<troots, tchains, ttrees, tlast>>

TreeInit ==
    /\ troots = <<0, 0>>
    /\ tchains = [i \in 1..NumChains |-> << >>]
    /\ ttrees = [c \in 1..2 |-> << >>]
    /\ tlast = [chain |-> 0, name |-> "", visited |-> <<(<< >>), (<< >>)>>]

\* the two reads start: trees = tuple(Tree(instance) for _ in chains)
StartReads(a, b) ==
    /\ troots = <<0, 0>>
    /\ troots' = <<a, b>>
    /\ ttrees' = [c \in 1..2 |->
                    [i \in 1..NumChains |-> Tree([addr |-> <<a, b>>[c], val |-> <<a, b>>[c]])]]
    /\ UNCHANGED <<tchains, tlast>>

\* one more name of chain i is walked, by both reads; the chains are walked
\* in order
WalkName(i, name) ==
    /\ troots # <<0, 0>>
    /\ Len(tchains[i]) < MaxChain
    /\ \A j \in (i + 1)..NumChains : tchains[j] = << >>
    /\ tchains' = [tchains EXCEPT ![i] = Append(@, name)]
    /\ ttrees' = [c \in 1..2 |-> [ttrees[c] EXCEPT ![i] = TreeStep(@, name).tree]]
    /\ tlast' = [chain |-> i, name |-> name,
                 visited |-> [c \in 1..2 |-> TreeStep(ttrees[c][i], name).visited]]
    /\ UNCHANGED troots

TreeNext ==
    \/ \E a, b \in TreeObjs : StartReads(a, b)
    \/ \E i \in 1..NumChains, name \in TreeAttrs : WalkName(i, name)

(* ----------------------------- nested reads ---------------------------- *)
\* get_elements as the recursion it is: one frame per call, the frames of
\* the calls in progress on a stack.  The class has a Variable _a_ that
\* holds an instance (assigned by the constructor) and two singular
\* Properties _b_ and _q_ with at most one chain each; a Property's method
\* returns the object its chain reached (the instance itself without a
\* chain), so that chains can pass through Properties.
NumInsts == 2

RInsts == 1..NumInsts
RNames == {"a", "b", "q"}
RSlots == RInsts \X RNames

\* the chains a Property can be declared with
RChains == {<< >>, <<"a">>, <<"b">>, <<"q">>, <<"a", "b">>, <<"a", "q">>}

\* the depth at which the interpreter stops a recursion; more frames than
\* there are slots
MaxDepth == 3 * NumInsts + 1

VARIABLES
    rclass,     \* the chain of _b_ and of _q_
    rlink,      \* the instance every instance's _a_ holds
    rslots,     \* per slot, the element it holds (0: the slot is empty)
    rstack,     \* the frames of the calls of get_elements in progress: the
                \* instance and the name read, the number of chain steps
                \* done and the content of the leaf
    rroot,      \* the slot the caller reads
    rstatus     \* "undeclared", "idle", "running", "overflow"

readVars == <<rclass, rlink, rslots, rstack, rroot, rstatus>>

ReadInit ==
    /\ rclass = [n \in {"b", "q"} |-> << >>]
    /\ rlink = [i \in RInsts |-> i]
    /\ rslots = [s \in RSlots |-> 0]
    /\ rstack = << >>
    /\ rroot = <<1, "a">>
    /\ rstatus = "undeclared"

\* self._parameter_name_chains of the descriptor called name (its only
\* chain, when it has one)
RChainOf(name) == IF name = "a" THEN << >> ELSE rclass[name]

\* the class is declared and the instances are constructed: every _a_ is
\* assigned
Configure(b, q, link) ==
    /\ rstatus = "undeclared"
    /\ rclass' = [n \in {"b", "q"} |-> IF n = "b" THEN b ELSE q]
    /\ rlink' = link
    /\ rslots' = [s \in RSlots |-> IF s[2] = "a" THEN link[s[1]] ELSE 0]
    /\ rstatus' = "idle"
    /\ UNCHANGED <<rstack, rroot>>

\* instance.name is read by the caller
BeginRead(instance, name) ==
    /\ rstatus = "idle"
    /\ rstack' = <<[inst |-> instance, name |-> name, pos |-> 0, leaf |-> instance]>>
    /\ rroot' = <<instance, name>>
    /\ rstatus' = "running"
    /\ UNCHANGED <<rclass, rlink, rslots>>

Top == rstack[Len(rstack)]
TopSlot == <<Top.inst, Top.name>>

\* the frame on top returns element: its caller's leaf takes it and the
\* caller goes on with its next step; the caller of the first frame gets
\* the result
ReturnTo(element) ==
    IF Len(rstack) = 1
    THEN rstack' = << >> /\ rstatus' = "idle"
    ELSE /\ rstack' = [SubSeq(rstack, 1, Len(rstack) - 1) EXCEPT
                            ![Len(rstack) - 1].pos = @ + 1,
                            ![Len(rstack) - 1].leaf = element]
         /\ rstatus' = "running"

\* a guard against re-entrance: a call for a slot that a frame below is
\* computing returns at once
PopulatedOrBeingRead(stack, slotmap) ==
    \/ slotmap[<<stack[Len(stack)].inst, stack[Len(stack)].name>>] # 0
    \/ \E k \in 1..(Len(stack) - 1) :
            <<stack[k].inst, stack[k].name>> = <<stack[Len(stack)].inst, stack[Len(stack)].name>>

\* the test at the entry of get_elements: slot.get() is not None
Populated(stack, slotmap) ==
    slotmap[<<stack[Len(stack)].inst, stack[Len(stack)].name>>] # 0

\* get_elements finds the slot populated and returns its element
ReturnPopulated ==
    /\ rstatus = "running"
    /\ Top.pos = 0
    /\ Populated(rstack, rslots)
    /\ ReturnTo(IF rslots[TopSlot] # 0 THEN rslots[TopSlot] ELSE Top.inst)
    /\ UNCHANGED <<rclass, rlink, rslots, rroot>>

\* the walk reaches the next name of the chain: descriptor.get_elements of
\* the leaf's content is called
Descend ==
    /\ rstatus = "running"
    /\ ~(Top.pos = 0 /\ Populated(rstack, rslots))
    /\ Top.pos < Len(RChainOf(Top.name))
    /\ Len(rstack) < MaxDepth
    /\ rstack' = Append(rstack, [inst |-> Top.leaf, name |-> RChainOf(Top.name)[Top.pos + 1],
                                 pos |-> 0, leaf |-> Top.leaf])
    /\ UNCHANGED <<rclass, rlink, rslots, rroot, rstatus>>

\* the same call with the stack at the interpreter's limit: RecursionError
Overflow ==
    /\ rstatus = "running"
    /\ ~(Top.pos = 0 /\ Populated(rstack, rslots))
    /\ Top.pos < Len(RChainOf(Top.name))
    /\ Len(rstack) = MaxDepth
    /\ rstatus' = "overflow"
    /\ UNCHANGED <<rclass, rlink, rslots, rstack, rroot>>

\* the chain is walked: the method is called, the slot is set and the
\* element returned
Finish ==
    /\ rstatus = "running"
    /\ ~(Top.pos = 0 /\ Populated(rstack, rslots))
    /\ Top.pos = Len(RChainOf(Top.name))
    /\ rslots' = [rslots EXCEPT ![TopSlot] = Top.leaf]
    /\ ReturnTo(Top.leaf)
    /\ UNCHANGED <<rclass, rlink, rroot>>

\* the steps of a read in progress
ReadStep == ReturnPopulated \/ Descend \/ Overflow \/ Finish

ReadNext ==
    \/ \E b, q \in RChains, link \in [RInsts -> RInsts] : Configure(b, q, link)
    \/ \E instance \in RInsts, name \in RNames : BeginRead(instance, name)
    \/ ReadStep

(* ------------------------ the former descriptors ----------------------- *)
\* utils/lazy.py: a class with two lazy_basedata, _x_ and _w_, and three
\* lazy_property: _y_(x), _z_(y), which reaches _x_ through _y_, and
\* _t_(w).  A LazyData object is named by a number (0: the default basedata
\* of _x_, NumData + 1: that of _w_); it is hashed by identity, and so is a
\* tuple of them.
NumData == 2
NumLegacy == 2

LData == 0..(NumData + 1)
LInsts == 1..NumLegacy
LBasedata == {"x", "w"}
LProperties == {"y", "z", "t"}

\* _lazy_descriptor.parameters: the descriptors the parameters name
LParameters(p) ==
    CASE p = "y" -> <<"x">>
      [] p = "z" -> <<"y">>
      [] p = "t" -> <<"w">>

\* traverse of LazyBase.__init_subclass__: the basedata descriptors a
\* property reaches, in order (_PROPERTY_DESCR_TO_BASEDATA_DESCRS)
RECURSIVE Traverse(_)
Traverse(p) ==
    Concat([k \in 1..Len(LParameters(p)) |->
                IF LParameters(p)[k] \in LBasedata THEN <<LParameters(p)[k]>>
                ELSE Traverse(LParameters(p)[k])])

\* the properties that have the basedata among their own parameters
PropertyDescrsDirect(b) == {p \in LProperties : b \in RangeOf(LParameters(p))}

\* _BASEDATA_DESCR_TO_PROPERTY_DESCRS: the properties that reach the basedata
PropertyDescrs(b) == {p \in LProperties : b \in RangeOf(Traverse(p))}

\* the basedata tuples of a property
LTuples(p) == [1..Len(Traverse(p)) -> LData]

\* lazy_basedata.default_basedata
DefaultBasedata(b) == IF b = "x" THEN 0 ELSE NumData + 1

\* LazyData.data of the object d, and the methods of the properties
DataOf(d) == d % 2
LegacyMethod(p, args) ==
    CASE p = "y" -> args[1] + 10
      [] p = "z" -> args[1] + 100
      [] p = "t" -> args[1] + 20

VARIABLES
    lbase,      \* lazy_basedata.instance_to_basedata_dict of each basedata
                \* (a set of at most one LazyData per instance)
    lbinsts,    \* lazy_basedata.basedata_to_instances_dict (absent key:
                \* the empty list)
    ltuple,     \* lazy_property.instance_to_basedata_tuple_dict of each
                \* property
    ltinsts,    \* lazy_property.basedata_tuple_to_instances_dict
    lprop,      \* lazy_property.basedata_tuple_to_property_dict: per tuple
                \* the value object stored (its content and the tuple it
                \* was computed for)
    llast       \* the last call: op, instance and descriptor, whether the
                \* tuple had a value stored when __get__ was called, the
                \* invocations of the method of the property read, the
                \* value returned, and the properties an assignment
                \* unbound the instance from

legacyVars == <<lbase, lbinsts, ltuple, ltinsts, lprop, llast>>

LegacyInit ==
    /\ lbase = [b \in LBasedata |-> [i \in LInsts |-> {}]]
    /\ lbinsts = [b \in LBasedata |-> [d \in LData |-> << >>]]
    /\ ltuple = [p \in LProperties |-> [i \in LInsts |-> {}]]
    /\ ltinsts = [p \in LProperties |-> [t \in LTuples(p) |-> << >>]]
    /\ lprop = [p \in LProperties |-> [t \in LTuples(p) |-> {}]]
    /\ llast = [op |-> "init", instance |-> 0, d |-> "", cached |-> FALSE, calls |-> 0,
                result |-> {}, unbound |-> {}]

LegacyCurrent ==
    [base |-> lbase, binsts |-> lbinsts, tuple |-> ltuple, tinsts |-> ltinsts,
     prop |-> lprop, calls |-> [p \in LProperties |-> 0]]

\* list.remove(instance)
Remove(list, instance) ==
    LET first == CHOOSE k \in 1..Len(list) : list[k] = instance /\ \A j \in 1..(k - 1) : list[j] # instance
    IN  SubSeq(list, 1, first - 1) \o SubSeq(list, first + 1, Len(list))

\* lazy_basedata._get_data
LegacyGetData(st, instance, b) ==
    IF st.base[b][instance] = {} THEN DefaultBasedata(b)
    ELSE CHOOSE d \in st.base[b][instance] : TRUE

\* the invocations of the method in one __get__: the second argument of
\* dict.setdefault is evaluated before the call, whatever the dict holds
Invocations(stored) == 1

\* lazy_basedata.__get__ and lazy_property.__get__: the state left and the
\* value returned (for a property: the value object)
RECURSIVE LegacyGetValue(_, _, _)
RECURSIVE LegacyArguments(_, _, _)

\* param_descr.__get__(instance) for every parameter, in order
LegacyArguments(st, instance, params) ==
    IF params = << >> THEN [st |-> st, args |-> << >>]
    ELSE LET first == LegacyGetValue(st, instance, Head(params))
             rest == LegacyArguments(first.st, instance, Tail(params))
         IN  [st |-> rest.st,
              args |-> <<IF Head(params) \in LBasedata THEN first.value ELSE first.value.val>>
                            \o rest.args]

LegacyGetValue(st, instance, descr) ==
    IF descr \in LBasedata
    THEN [st |-> st, value |-> DataOf(LegacyGetData(st, instance, descr))]
    ELSE
    LET bound == st.tuple[descr][instance]
        basedata_tuple ==
            IF bound = {}
            THEN [k \in 1..Len(Traverse(descr)) |-> LegacyGetData(st, instance, Traverse(descr)[k])]
            ELSE CHOOSE t \in bound : TRUE
        st1 == IF bound = {}
               THEN [st EXCEPT !.tuple[descr][instance] = {basedata_tuple},
                               !.tinsts[descr][basedata_tuple] = Append(@, instance)]
               ELSE st
        got == LegacyArguments(st1, instance, LParameters(descr))
        computed == [val |-> LegacyMethod(descr, got.args), of |-> basedata_tuple]
        stored == got.st.prop[descr][basedata_tuple]
        st2 == [got.st EXCEPT
                    !.calls[descr] = @ + Invocations(stored),
                    !.prop[descr][basedata_tuple] = IF stored = {} THEN {computed} ELSE stored]
    IN  [st |-> st2, value |-> CHOOSE v \in st2.prop[descr][basedata_tuple] : TRUE]

\* lazy_property.__get__
LegacyGet(instance, p) ==
    LET got == LegacyGetValue(LegacyCurrent, instance, p)
        basedata_tuple == CHOOSE t \in got.st.tuple[p][instance] : TRUE
    IN  /\ ltuple' = got.st.tuple
        /\ ltinsts' = got.st.tinsts
        /\ lprop' = got.st.prop
        /\ llast' = [op |-> "get", instance |-> instance, d |-> p,
                     cached |-> lprop[p][basedata_tuple] # {},
                     calls |-> got.st.calls[p],
                     result |-> {got.value}, unbound |-> {}]
        /\ UNCHANGED <<lbase, lbinsts>>

\* lazy_property._clear_instance_basedata_tuple (the restock hooks are
\* unset and the data are no LazyBase: _restock does nothing)
ClearInstanceBasedataTuple(st, p, instance) ==
    IF st.tuple[p][instance] = {} THEN st
    ELSE LET basedata_tuple == CHOOSE t \in st.tuple[p][instance] : TRUE
             left == Remove(st.tinsts[p][basedata_tuple], instance)
         IN  [st EXCEPT !.tuple[p][instance] = {},
                        !.tinsts[p][basedata_tuple] = left,
                        !.prop[p][basedata_tuple] = IF left = << >> THEN {} ELSE @]

\* for property_descr in _BASEDATA_DESCR_TO_PROPERTY_DESCRS[self]
RECURSIVE ClearAll(_, _, _)
ClearAll(st, ps, instance) ==
    IF ps = {} THEN st
    ELSE LET p == CHOOSE q \in ps : TRUE
         IN  ClearAll(ClearInstanceBasedataTuple(st, p, instance), ps \ {p}, instance)

\* lazy_basedata._clear_instance_basedata
ClearInstanceBasedata(st, b, instance) ==
    IF st.base[b][instance] = {} THEN st
    ELSE LET basedata == CHOOSE d \in st.base[b][instance] : TRUE
         IN  [st EXCEPT !.base[b][instance] = {},
                        !.binsts[b][basedata] = Remove(@, instance)]

\* lazy_basedata._set_data
SetData(st, b, instance, basedata) ==
    LET st1 == ClearAll(ClearInstanceBasedata(st, b, instance), PropertyDescrs(b), instance)
    IN  [st1 EXCEPT !.base[b][instance] = {basedata},
                    !.binsts[b][basedata] = Append(@, instance)]

\* lazy_basedata.__set__
LegacySet(instance, b, basedata) ==
    LET st == SetData(LegacyCurrent, b, instance, basedata)
    IN  /\ lbase' = st.base
        /\ lbinsts' = st.binsts
        /\ ltuple' = st.tuple
        /\ ltinsts' = st.tinsts
        /\ lprop' = st.prop
        /\ llast' = [op |-> "set", instance |-> instance, d |-> b, cached |-> FALSE,
                     calls |-> 0, result |-> {},
                     unbound |-> {p \in LProperties :
                                    ltuple[p][instance] # {} /\ st.tuple[p][instance] = {}}]

LegacyNext ==
    \/ \E instance \in LInsts, p \in LProperties : LegacyGet(instance, p)
    \/ \E instance \in LInsts, b \in LBasedata, basedata \in 1..NumData :
            LegacySet(instance, b, basedata)

(* --------------------------- default values ---------------------------- *)
\* A class with two Variables that callers may leave unassigned, both hashed
\* by identity:
\*   _f_  frozen, like IndexedAttributesBuffer._index_buffer_
\*   _u_  not frozen, like Model._model_matrix_ (Lazy.variable(freeze=False))
\* Every invocation of a default factory builds a new object.
NumHolders == 2

Holders == 1..NumHolders
DefaultDescs == {"f", "u"}
DefaultSlots == Holders \X DefaultDescs

\* the addresses of the value objects: one per slot and one for an object
\* under construction
DefaultAddrs == 1..(2 * NumHolders + 1)

VARIABLES
    vslots,     \* the slot of every instance and Variable
    velements,  \* LazyDescriptor._element_registration of every Variable
    vkeys,      \* LazyDescriptor._parameter_key_registration of every Variable
    vcache,     \* LazyDescriptor._cache of every Variable
    vlast       \* the last operation: op, instance, descriptor and the
                \* number of invocations of the default factory

defaultVars == <<vslots, velements, vkeys, vcache, vlast>>

DefaultInit ==
    /\ vslots = [s \in DefaultSlots |-> EmptySlot]
    /\ velements = [d \in DefaultDescs |-> {}]
    /\ vkeys = [d \in DefaultDescs |-> {}]
    /\ vcache = [d \in DefaultDescs |-> << >>]
    /\ vlast = [op |-> "init", instance |-> 0, d |-> "", calls |-> 0]

DefaultCurrent ==
    [slots |-> vslots, elements |-> velements, keys |-> vkeys, cache |-> vcache, calls |-> 0]

\* what the weak tables of the two descriptors still hold
DefaultCollect(st) ==
    LET liveKeys == [d \in DefaultDescs |->
                        UNION {st.slots[<<o, d>>].parameter_key : o \in Holders}]
        cache1 == [d \in DefaultDescs |->
                      LET Keep(entry) == entry.key \in liveKeys[d]
                      IN  SelectSeq(st.cache[d], Keep)]
        liveElements == [d \in DefaultDescs |->
                            UNION {RangeOf(st.slots[<<o, d>>].elements) : o \in Holders}
                                \cup UNION {RangeOf(cache1[d][i].value) : i \in 1..Len(cache1[d])}]
    IN  [st EXCEPT !.cache = cache1,
                   !.keys = [d \in DefaultDescs |-> st.keys[d] \cap liveKeys[d]],
                   !.elements = [d \in DefaultDescs |-> st.elements[d] \cap liveElements[d]]]

\* the address of a new object: one that no live object has
NewAddr(st) ==
    LET used == UNION {{h.addr : h \in st.elements[d]} : d \in DefaultDescs}
    IN  CHOOSE a \in DefaultAddrs : a \notin used /\ \A b \in 1..(a - 1) : b \in used

\* LazyDescriptor.get_elements of a descriptor without parameters: no tree
\* is walked, the parameter key is the empty tuple
GetDefault(st, instance, d) ==
    LET slot == <<instance, d>>
    IN  IF st.slots[slot].populated
        THEN [st |-> st, elements |-> Values(st.slots[slot].elements)]
        ELSE
        LET kreg == RegisterParameterKey(st.keys[d], d, << >>)
            hit == CacheGet(st.cache[d], kreg.handle)
            data == [addr |-> NewAddr(st), val |-> 0]
            ereg == RegisterElements(st.elements[d], d, Decomposer(d, data))
            registered_elements == IF hit # {} THEN CHOOSE e \in hit : TRUE ELSE ereg.handles
            st1 == IF hit # {}
                   THEN [st EXCEPT !.keys[d] = kreg.table]
                   ELSE [st EXCEPT
                            !.keys[d] = kreg.table,
                            !.elements[d] = ereg.table,
                            !.calls = @ + 1,
                            !.cache[d] = IF CachesResult(d)
                                         THEN CacheSet(@, CacheCapacity, kreg.handle, ereg.handles)
                                         ELSE @]
            st2 == [st1 EXCEPT !.slots[slot] =
                        [populated |-> TRUE, elements |-> registered_elements,
                         parameter_key |-> {kreg.handle}, associated_slots |-> {}]]
        IN  [st |-> DefaultCollect(st2), elements |-> Values(registered_elements)]

\* LazyDescriptor.set_elements of a Variable no Property reads
SetDefault(st, instance, d, elements) ==
    LET slot == <<instance, d>>
        ereg == RegisterElements(st.elements[d], d, elements)
        st1 == [st EXCEPT !.elements[d] = ereg.table]
    IN  IF st.slots[slot].populated /\ ereg.handles = st.slots[slot].elements
        THEN DefaultCollect(st1)
        ELSE DefaultCollect([st1 EXCEPT !.slots[slot] =
                [populated |-> TRUE, elements |-> ereg.handles,
                 parameter_key |-> {}, associated_slots |-> {}]])

DefaultCommit(st, op, instance, d) ==
    /\ vslots' = st.slots
    /\ velements' = st.elements
    /\ vkeys' = st.keys
    /\ vcache' = st.cache
    /\ vlast' = [op |-> op, instance |-> instance, d |-> d, calls |-> st.calls]

\* instance.d
DefaultRead(instance, d) ==
    DefaultCommit(GetDefault(DefaultCurrent, instance, d).st,
                  IF vslots[<<instance, d>>].populated THEN "read" ELSE "first_read",
                  instance, d)

\* instance.d = data: a new object, or one another slot of d already holds
DefaultInputs(d) ==
    {[addr |-> NewAddr(DefaultCurrent), val |-> 0]} \cup {ValueOf(h) : h \in velements[d]}

DefaultWrite(instance, d, data) ==
    DefaultCommit(SetDefault(DefaultCurrent, instance, d, Decomposer(d, data)),
                  "write", instance, d)

DefaultNext ==
    \/ \E instance \in Holders, d \in DefaultDescs : DefaultRead(instance, d)
    \/ \E instance \in Holders, d \in DefaultDescs : \E data \in DefaultInputs(d) :
            DefaultWrite(instance, d, data)

(* ------------------------------ timelines ------------------------------ *)
\* timelines/timeline.py.  A Timeline is named by a number; its construct
\* coroutine is a script of steps:
\*   play     await self.play(child)
\*   prepare  self.prepare(child)               (no await)
\*   wait     await self.wait_until(condition)
\* A condition is None, a callable of the caller that reads the clock
\* (named by a number; once true it stays true, as time only grows), or the
\* bound method terminated of a timeline.
NumTimelines == 3
NumConditions == 2
MaxSteps == 2

Timelines == 1..NumTimelines
Conditions == 1..NumConditions

NoCondition == [kind |-> "None", arg |-> 0]
ClockCondition(k) == [kind |-> "clock", arg |-> k]

\* a play that does not wait for the timeline it prepared
PlayWithoutWaiting(child) == [kind |-> "None", arg |-> 0]

\* Timeline.play: await self.wait_until(timeline.terminated)
PlayCondition(child) == [kind |-> "terminated", arg |-> child]

\* the steps a construct coroutine of timeline t can take: it plays the
\* timeline constructed after it, prepares the last one and waits
Steps(t) ==
    {[op |-> "play", arg |-> c] : c \in {t + 1} \cap Timelines}
        \cup {[op |-> "prepare", arg |-> c] : c \in {NumTimelines} \ {t}}
        \cup {[op |-> "wait", arg |-> NumConditions]}

Scripts(t) ==
    UNION {[1..n -> Steps(t)] : n \in 0..(IF t = 1 THEN MaxSteps ELSE 1)}

\* Timeline.__init__; "coroutine" is the position of the construct
\* coroutine in its script (0: closed by an exception)
NewTimeline ==
    [timeline_state |-> "None", launch_condition |-> NoCondition,
     terminate_condition |-> NoCondition, progress_condition |-> NoCondition,
     coroutine |-> 1, children |-> << >>]

VARIABLES
    timelines,  \* the fields of every timeline
    scripts,    \* the construct coroutine of every timeline
    clock,      \* which clock conditions hold
    starts,     \* how often every timeline was scheduled and launched
    called      \* the last call: op, timeline, whether it raised

timelineVars == <<timelines, scripts, clock, starts, called>>

TimelineInit ==
    /\ timelines = [t \in Timelines |-> NewTimeline]
    /\ scripts = [t \in Timelines |-> << >>]
    /\ clock = [k \in Conditions |-> FALSE]
    /\ starts = [t \in Timelines |-> [schedules |-> 0, launches |-> 0]]
    /\ called = [op |-> "init", t |-> 0, raised |-> FALSE]

\* the state a call works on: the timelines, the events so far and whether
\* an exception is on its way up
TimelineCurrent == [tl |-> timelines, starts |-> starts, events |-> << >>, raised |-> FALSE]

Event(ev, t, c, flag) == [ev |-> ev, t |-> t, c |-> c, flag |-> flag, children |-> << >>]

Emit(st, ev, t, c, flag) == [st EXCEPT !.events = Append(@, Event(ev, t, c, flag))]

Raise(st, t) == [Emit(st, "raise", t, 0, FALSE) EXCEPT !.raised = TRUE]

\* Timeline.scheduled / launched / terminated
Scheduled(tl, t) == tl[t].timeline_state \in {"AfterScheduled", "AfterLaunched", "AfterTerminated"}
Launched(tl, t) == tl[t].timeline_state \in {"AfterLaunched", "AfterTerminated"}
Terminated(tl, t) == tl[t].timeline_state = "AfterTerminated"

\* condition(): the value a condition that is not None has when called
Holds(tl, cond) ==
    IF cond.kind = "clock" THEN clock[cond.arg] ELSE Terminated(tl, cond.arg)

\* an assertion that never fails
AssertsNothing(tl, t) == TRUE

\* the assertion of schedule: self._timeline_state is None
ScheduleAsserts(tl, t) == tl[t].timeline_state = "None"

\* the assertion of launch: the state is AfterScheduled
LaunchAsserts(tl, t) == tl[t].timeline_state = "AfterScheduled"

\* the assertion of terminate and of prepare: the state is AfterLaunched
TerminateAsserts(tl, t) == tl[t].timeline_state = "AfterLaunched"

\* Timeline.schedule
Schedule(st, t, launch_condition, terminate_condition) ==
    IF ~ScheduleAsserts(st.tl, t) THEN Raise(st, t)
    ELSE Emit([st EXCEPT
            !.starts[t].schedules = @ + 1,
            !.tl[t].timeline_state = "AfterScheduled",
            !.tl[t].launch_condition =
                IF launch_condition # NoCondition THEN launch_condition ELSE @,
            !.tl[t].terminate_condition =
                IF terminate_condition # NoCondition THEN terminate_condition ELSE @],
         "schedule", t, 0, TRUE)

\* Timeline.launch: the coroutine object is created, not started
Launch(st, t) ==
    IF ~LaunchAsserts(st.tl, t) THEN Raise(st, t)
    ELSE Emit([st EXCEPT !.starts[t].launches = @ + 1,
                         !.tl[t].timeline_state = "AfterLaunched",
                         !.tl[t].coroutine = 1,
                         !.tl[t].children = << >>],
              "launch", t, 0, TRUE)

\* Timeline.terminate
Terminate(st, t) ==
    IF ~TerminateAsserts(st.tl, t) THEN Raise(st, t)
    ELSE Emit([st EXCEPT !.tl[t].timeline_state = "AfterTerminated",
                         !.tl[t].launch_condition = NoCondition,
                         !.tl[t].terminate_condition = NoCondition,
                         !.tl[t].progress_condition = NoCondition],
              "terminate", t, 0, TRUE)

\* Timeline.prepare
Prepare(st, t, child) ==
    IF ~TerminateAsserts(st.tl, t) THEN Raise(st, t)
    ELSE LET st1 == Schedule(st, child, NoCondition, NoCondition)
         IN  IF st1.raised THEN st1
             ELSE Emit([st1 EXCEPT !.tl[t].children = Append(@, child)], "prepare", t, child, TRUE)

\* Timeline.wait_until, up to its await
WaitUntil(st, t, progress_condition) ==
    [st EXCEPT !.tl[t].progress_condition = progress_condition]

\* construct_coroutine.send(None): the coroutine runs to its next await
\* ("yield"), to its end ("stop": StopIteration) or to an exception
\* ("raise"), which closes it; a closed coroutine raises RuntimeError
RECURSIVE Send(_, _)
Send(st, t) ==
    LET position == st.tl[t].coroutine
        step == scripts[t][position]
        next == [st EXCEPT !.tl[t].coroutine = position + 1]
    IN  IF position = 0 THEN [st |-> Raise(st, t), result |-> "raise"]
        ELSE IF position > Len(scripts[t]) THEN [st |-> st, result |-> "stop"]
        ELSE IF step.op = "wait"
             THEN [st |-> WaitUntil(next, t, ClockCondition(step.arg)), result |-> "yield"]
        ELSE LET prepared == Prepare(next, t, step.arg)
             IN  IF prepared.raised
                 THEN [st |-> [prepared EXCEPT !.tl[t].coroutine = 0], result |-> "raise"]
                 ELSE IF step.op = "play"
                      THEN [st |-> WaitUntil(prepared, t, PlayCondition(step.arg)),
                            result |-> "yield"]
                      ELSE Send(prepared, t)

\* a condition that holds a timeline back whenever it is set
BlocksWhenSet(tl, cond) == cond # NoCondition

\* self._launch_condition is not None and not self._launch_condition()
LaunchConditionBlocks(tl, cond) == cond # NoCondition /\ ~Holds(tl, cond)

\* self._progress_condition is not None and not self._progress_condition()
ProgressConditionBlocks(tl, cond) == cond # NoCondition /\ ~Holds(tl, cond)

\* self._terminate_condition is None or not self._terminate_condition()
LoopContinues(tl, cond) == cond = NoCondition \/ ~Holds(tl, cond)

RECURSIVE Progress(_, _)
RECURSIVE ProgressChildren(_, _, _)
RECURSIVE ProgressLoop(_, _)

\* for child in timeline_state.children[:]: the child is progressed and,
\* when it has terminated, removed from the list
ProgressChildren(st, t, children) ==
    IF children = << >> \/ st.raised THEN st
    ELSE LET child == Head(children)
             st1 == Progress(st, child)
             st2 == Emit(st1, "child", t, child, Terminated(st1.tl, child))
             Other(c) == c # child
             st3 == IF Terminated(st2.tl, child)
                    THEN Emit([st2 EXCEPT !.tl[t].children = SelectSeq(@, Other)],
                              "remove", t, child, TRUE)
                    ELSE st2
         IN  IF st1.raised THEN st1 ELSE ProgressChildren(st3, t, Tail(children))

\* the coroutine advanced ahead of the children
ProgressIterationSendFirst(st, t) ==
    LET sent == Send(Emit(st, "send", t, 0, TRUE), t)
    IN  [st |-> ProgressChildren(sent.st, t, sent.st.tl[t].children), result |-> sent.result]

\* the body of the loop of _progress after the children: the progress
\* condition is tested and the coroutine advanced; "return" when the
\* condition holds the timeline back
ProgressIteration(st, t) ==
    LET cond == st.tl[t].progress_condition
        st1 == Emit(st, "check", t, 0, cond = NoCondition \/ Holds(st.tl, cond))
    IN  IF ProgressConditionBlocks(st.tl, cond) THEN [st |-> st1, result |-> "return"]
        ELSE Send(Emit(st1, "send", t, 0, TRUE), t)

\* the while loop of _progress and the terminate that follows it
ProgressLoop(st, t) ==
    IF ~LoopContinues(st.tl, st.tl[t].terminate_condition)
    THEN Terminate(Emit(st, "break", t, 0, TRUE), t)
    ELSE LET entered == [Event("iterate", t, 0, TRUE) EXCEPT !.children = st.tl[t].children]
             st1 == ProgressChildren([st EXCEPT !.events = Append(@, entered)], t,
                                     st.tl[t].children)
             it == ProgressIteration(st1, t)
         IN  IF st1.raised THEN st1
             ELSE IF it.result = "return" \/ it.result = "raise" THEN it.st
             ELSE IF it.result = "stop" THEN Terminate(it.st, t)
             ELSE ProgressLoop(it.st, t)

\* Timeline._progress
Progress(st, t) ==
    LET held == /\ st.tl[t].timeline_state = "AfterScheduled"
                /\ LaunchConditionBlocks(st.tl, st.tl[t].launch_condition)
        st1 == IF st.tl[t].timeline_state = "AfterScheduled" THEN Launch(st, t) ELSE st
    IN  IF held THEN Emit(st, "held", t, 0, TRUE)
        ELSE IF st1.tl[t].timeline_state = "AfterLaunched" THEN ProgressLoop(st1, t)
        ELSE st1

TimelineCommit(st, op, t) ==
    /\ timelines' = st.tl
    /\ starts' = st.starts
    /\ called' = [op |-> op, t |-> t, raised |-> st.raised]
    /\ UNCHANGED <<scripts, clock>>

\* the classes of the timelines are written: their construct coroutines
DefineTimelines(s) ==
    /\ called.op = "init"
    /\ scripts' = s
    /\ called' = [op |-> "define", t |-> 0, raised |-> FALSE]
    /\ UNCHANGED <<timelines, clock, starts>>

\* timeline.schedule(...), called from outside a coroutine
CallSchedule(t, launch_condition, terminate_condition) ==
    TimelineCommit(Schedule(TimelineCurrent, t, launch_condition, terminate_condition),
                   "schedule", t)

\* timeline.launch()
CallLaunch(t) == TimelineCommit(Launch(TimelineCurrent, t), "launch", t)

\* timeline.terminate()
CallTerminate(t) == TimelineCommit(Terminate(TimelineCurrent, t), "terminate", t)

\* timeline._progress()
CallProgress(t) == TimelineCommit(Progress(TimelineCurrent, t), "progress", t)

\* time passes: a clock condition becomes true
Tick(k) ==
    /\ ~clock[k]
    /\ clock' = [clock EXCEPT ![k] = TRUE]
    /\ called' = [op |-> "tick", t |-> 0, raised |-> FALSE]
    /\ UNCHANGED <<timelines, scripts, starts>>

TimelineNext ==
    \/ /\ called.op = "init"
       /\ \E s \in [Timelines -> UNION {Scripts(t) : t \in Timelines}] :
            (\A t \in Timelines : s[t] \in Scripts(t)) /\ DefineTimelines(s)
    \/ \E l \in {NoCondition, ClockCondition(1)},
          e \in {NoCondition, ClockCondition(NumConditions)} : CallSchedule(1, l, e)
    \/ \E t \in Timelines : CallLaunch(t)
    \/ \E t \in Timelines : CallTerminate(t)
    \/ \E t \in Timelines : CallProgress(t)
    \/ \E k \in Conditions : Tick(k)

(* ------------------------------- DAGNode ------------------------------- *)
NumNodes == 3
MaxNodes == 2

DagNodes == 1..NumNodes

\* *nodes: the nodes one call is given
NodeArgs == UNION {[1..n -> DagNodes] : n \in 0..MaxNodes}

VARIABLES dchildren, dparents, dcalled

dagVars == <<dchildren, dparents, dcalled>>

\* DAGNode(): both lists are empty
DagInit ==
    /\ dchildren = [n \in DagNodes |-> << >>]
    /\ dparents = [n \in DagNodes |-> << >>]
    /\ dcalled = [op |-> "init", self |-> 0, nodes |-> << >>, raised |-> FALSE]

DagCurrent == [children |-> dchildren, parents |-> dparents, raised |-> FALSE]

\* iter_ancestors(node) with its set occurred, kept in the order of the yields
RECURSIVE IterAncestorsFrom(_, _, _)
RECURSIVE IterAncestorsOver(_, _, _)
IterAncestorsFrom(parents, node, occurred) ==
    IF node \in RangeOf(occurred)
    THEN occurred
    ELSE IterAncestorsOver(parents, parents[node], Append(occurred, node))

IterAncestorsOver(parents, list, occurred) ==
    IF list = << >>
    THEN occurred
    ELSE IterAncestorsOver(parents, Tail(list),
                           IterAncestorsFrom(parents, Head(list), occurred))

\* what a walk that stops at the node itself yields
IterSelf(parents, node) == <<node>>

\* self._iter_ancestors()
IterAncestors(parents, node) == IterAncestorsFrom(parents, node, << >>)

\* list.remove(x): the first occurrence goes; x is in the list
RECURSIVE ListRemove(_, _)
ListRemove(list, x) ==
    IF Head(list) = x THEN Tail(list) ELSE <<Head(list)>> \o ListRemove(Tail(list), x)

\* the for loop of _bind_children over the nodes not yet visited
RECURSIVE BindLoop(_, _, _)
BindLoop(st, self, nodes) ==
    IF nodes = << >>
    THEN st
    ELSE LET node == Head(nodes)
         IN  IF node \in RangeOf(st.children[self])
             THEN [st EXCEPT !.raised = TRUE]
             ELSE BindLoop([st EXCEPT !.children[self] = Append(@, node),
                                      !.parents[node] = Append(@, self)],
                           self, Tail(nodes))

\* self._bind_children(*nodes)
BindChildren(st, self, nodes) ==
    LET invalid_nodes == SelectSeq(IterAncestors(st.parents, self),
                                   LAMBDA node : node \in RangeOf(nodes))
    IN  IF invalid_nodes # << >>
        THEN [st EXCEPT !.raised = TRUE]
        ELSE BindLoop(st, self, nodes)

\* the for loop of _unbind_children; list.remove raises ValueError when the
\* element is not in the list
RECURSIVE UnbindLoop(_, _, _)
UnbindLoop(st, self, nodes) ==
    IF nodes = << >>
    THEN st
    ELSE LET node == Head(nodes)
         IN  IF node \notin RangeOf(st.children[self])
             THEN [st EXCEPT !.raised = TRUE]
             ELSE LET removed == [st EXCEPT !.children[self] = ListRemove(@, node)]
                  IN  IF self \notin RangeOf(removed.parents[node])
                      THEN [removed EXCEPT !.raised = TRUE]
                      ELSE UnbindLoop([removed EXCEPT !.parents[node] = ListRemove(@, self)],
                                      self, Tail(nodes))

\* self._unbind_children(*nodes)
UnbindChildren(st, self, nodes) ==
    LET invalid_nodes == SelectSeq(nodes, LAMBDA node : node \notin RangeOf(st.children[self]))
    IN  IF invalid_nodes # << >>
        THEN [st EXCEPT !.raised = TRUE]
        ELSE UnbindLoop(st, self, nodes)

\* the lists a call leaves, and whether it raised
DagCommit(st, op, self, nodes) ==
    /\ dchildren' = st.children
    /\ dparents' = st.parents
    /\ dcalled' = [op |-> op, self |-> self, nodes |-> nodes, raised |-> st.raised]

CallBind(self, nodes) == DagCommit(BindChildren(DagCurrent, self, nodes), "bind", self, nodes)

CallUnbind(self, nodes) ==
    DagCommit(UnbindChildren(DagCurrent, self, nodes), "unbind", self, nodes)

DagNext ==
    \/ \E self \in DagNodes, nodes \in NodeArgs : CallBind(self, nodes)
    \/ \E self \in DagNodes, nodes \in NodeArgs : CallUnbind(self, nodes)

(* --------------------------- specifications ---------------------------- *)
vars == <<objs, slots, registry, cache, last, readset, ucache, ulast, uhit,
         decls, klass, dlast, troots, tchains, ttrees, tlast,
         rclass, rlink, rslots, rstack, rroot, rstatus,
         lbase, lbinsts, ltuple, ltinsts, lprop, llast,
         vslots, velements, vkeys, vcache, vlast,
         timelines, scripts, clock, starts, called,
         dchildren, dparents, dcalled>>

Init == CoreInit /\ UnitInit /\ DeclInit /\ TreeInit /\ ReadInit /\ LegacyInit /\ DefaultInit /\ TimelineInit /\ DagInit

Next == CoreNext /\ UNCHANGED <<unitVars, declVars, treeVars, readVars, legacyVars,
        defaultVars, timelineVars, dagVars>>

\* reads, writes and constructions on the instances of the lazy class
Spec == Init /\ [][Next]_vars

CacheNext == UnitNext /\ UNCHANGED <<coreVars, declVars, treeVars, readVars, legacyVars,
        defaultVars, timelineVars, dagVars>>

\* calls on a single Cache
SpecCache == Init /\ [][CacheNext]_vars

CopySpecNext == CopyNext /\ UNCHANGED <<unitVars, declVars, treeVars, readVars, legacyVars,
        defaultVars, timelineVars, dagVars>>

DeclSpecNext == DeclNext /\ UNCHANGED <<coreVars, unitVars, treeVars, readVars, legacyVars,
        defaultVars, timelineVars, dagVars>>

TreeSpecNext == TreeNext /\ UNCHANGED <<coreVars, unitVars, declVars, readVars, legacyVars,
        defaultVars, timelineVars, dagVars>>

ReadSpecNext == ReadNext /\ UNCHANGED <<coreVars, unitVars, declVars, treeVars, legacyVars,
        defaultVars, timelineVars, dagVars>>

LegacySpecNext == LegacyNext /\ UNCHANGED <<coreVars, unitVars, declVars, treeVars,
        readVars, defaultVars, timelineVars, dagVars>>

\* reads and writes through the former descriptors
SpecLegacy == Init /\ [][LegacySpecNext]_vars

\* nested calls of get_elements; a call in progress always takes its next
\* step (the interpreter runs one thread)
SpecRead ==
    /\ Init /\ [][ReadSpecNext]_vars
    /\ WF_vars(ReadStep /\ UNCHANGED <<coreVars, unitVars, declVars, treeVars, legacyVars,
        defaultVars, timelineVars, dagVars>>)

\* the chains of one descriptor walked by two reads
SpecTree == Init /\ [][TreeSpecNext]_vars

\* the body and the definition of a class, and first reads of its instances
SpecDeclare == Init /\ [][DeclSpecNext]_vars

\* an instance, its copy and the child they share
SpecCopy == Init /\ [][CopySpecNext]_vars

DefaultSpecNext ==
    DefaultNext /\ UNCHANGED <<coreVars, unitVars, declVars, treeVars, readVars,
        legacyVars, timelineVars, dagVars>>

\* first reads and assignments of Variables with default values
SpecDefault == Init /\ [][DefaultSpecNext]_vars

TimelineSpecNext ==
    TimelineNext /\ UNCHANGED <<coreVars, unitVars, declVars, treeVars, readVars,
        legacyVars, defaultVars, dagVars>>

\* a call of _progress on the first timeline would change nothing: the
\* action CallProgress(1) is not enabled as a step that changes the state
ProgressIdle ==
    LET st == Progress(TimelineCurrent, 1)
    IN  /\ called = [op |-> "progress", t |-> 1, raised |-> st.raised]
        /\ st.tl = timelines
        /\ st.starts = starts

\* calls on timelines as time passes: the scene calls _progress on the
\* first timeline frame after frame, and time keeps passing.  The first conjunct of fairness is WF_vars(CallProgress(1))
\* written out, ProgressIdle being ~ENABLED <<CallProgress(1)>>_vars.
SpecTimeline ==
    /\ Init /\ [][TimelineSpecNext]_vars
    /\ \/ []<>ProgressIdle
       \/ []<><<CallProgress(1) /\ UNCHANGED <<coreVars, unitVars, declVars, treeVars,
                                               readVars, legacyVars, defaultVars,
                                               dagVars>>>>_vars
    /\ \A k \in Conditions :
        WF_vars(Tick(k) /\ UNCHANGED <<coreVars, unitVars, declVars, treeVars,
                                      readVars, legacyVars, defaultVars, dagVars>>)

DagSpecNext ==
    DagNext /\ UNCHANGED <<coreVars, unitVars, declVars, treeVars, readVars, legacyVars,
        defaultVars, timelineVars>>

\* calls of _bind_children and _unbind_children on a few nodes
SpecDag == Init /\ [][DagSpecNext]_vars

(* ------------------------------- claims -------------------------------- *)
\* the addresses a parameter key of descriptor d mentions: the key is one
\* nested tuple per chain, nested once per plural step of the chain
RECURSIVE Flatten(_, _)
Flatten(x, depth) ==
    IF depth = 0 THEN {x}
    ELSE UNION {Flatten(x[i], depth - 1) : i \in 1..Len(x)}

PluralSteps(chain) == Cardinality({i \in 1..Len(chain) : IsPlural(chain[i])})

KeyAddrs(d, key) ==
    UNION {Flatten(key[i], PluralSteps(ParameterNameChains(d)[i])) :
                i \in 1..Len(ParameterNameChains(d))}

\* every address a live parameter key mentions is the address of an instance
\* or of a live value object: no live key can meet a new object that reuses
\* the address of a dead one
NoDanglingAddress ==
    \A d \in Descs : \A k \in LiveParameterKeys(slots, d) :
        KeyAddrs(d, k.key) \subseteq AllObjs \cup UsedAddrs(Current)

\* what instance.d returns in the current state
ReadResult(instance, d) == Composer(d, GetElements(Current, instance, d).elements)

\* a step changes the elements of the populated Variable slot s
Rewritten(s) == slots[s].populated /\ slots'[s].elements # slots[s].elements

\* the populated Property slots whose chains had reached the Variable slot s
Readers(s) == {t \in PropertySlots : slots[t].populated /\ s \in readset[t]}

\* C1: no stale read.  In every reachable state, a read of any attribute of
\* any instance returns the content its declaration denotes for the current
\* contents of the Variables (the user function applied to what the chains
\* reach now), every populated Property slot holds that content, and no live
\* fingerprint mentions the address of a dead object.
NoStaleRead ==
    /\ \A s \in PropertySlots :
            (s[1] \in objs /\ slots[s].populated)
                => slots[s].elements[1].val = Denotes(slots, s[1], s[2])
    /\ \A instance \in objs, d \in Descs :
            ReadResult(instance, d).val = Denotes(slots, instance, d)
    /\ NoDanglingAddress

\* C1 witness: a read has just computed a Property that reaches, through
\* another instance, a Variable that was written
NoStaleReadWitness ==
    /\ last.op = "read" /\ last.calls >= 1
    /\ \E instance \in objs :
        /\ slots[<<instance, "r">>].populated
        /\ slots[<<instance, "c">>].elements[1].val # instance
        /\ slots[<<instance, "r">>].elements[1].val = 11

\* C2: read idempotence.  A read of a populated Property slot invokes no
\* method, changes no slot and returns the elements the slot holds; and the
\* slot keeps its handle-identical elements over every step that does not
\* change the elements of a Variable slot its chains had reached.
ReadIdempotence ==
    [][\A t \in PropertySlots :
        slots[t].populated
            => /\ GetElements(Current, t[1], t[2]).st.calls = NoCalls
               /\ GetElements(Current, t[1], t[2]).st.slots = slots
               /\ GetElements(Current, t[1], t[2]).elements = Values(slots[t].elements)
               /\ (\A s \in readset[t] : ~Rewritten(s))
                    => (slots'[t].populated /\ slots'[t].elements = slots[t].elements)]_vars

\* C2 witness: a populated Property slot was read again (the read of a
\* Property populated nothing and invoked nothing)
ReadIdempotenceWitness ==
    /\ last.op = "read" /\ last.calls = 0 /\ last.populated = 0
    /\ \E t \in PropertySlots : slots[t].populated /\ Cardinality(readset[t]) = 2

\* C3: transitive invalidation.  A step that gives a populated Variable slot
\* other elements leaves every Property slot empty that was populated and
\* whose chains had reached that Variable slot, directly or through other
\* Properties, on the same or on another instance.
TransitiveInvalidation ==
    [][\A s \in VariableSlots :
        Rewritten(s) => \A t \in Readers(s) : ~slots'[t].populated]_vars

\* C3 witness: a write has just emptied two Property slots while every
\* instance's _c_ holds the other instance, so that one of them is a slot of
\* _r_ that reached the written Variable through the other instance's _p_
TransitiveInvalidationWitness ==
    /\ last.op = "write" /\ last.expired >= 2
    /\ objs = Objs
    /\ \A instance \in objs : slots[<<instance, "c">>].elements[1].val # instance

\* the data has the hash key of the element the slot holds
SameKey(instance, d, data) ==
    /\ slots[<<instance, d>>].populated
    /\ slots[<<instance, d>>].elements[1].key = Hasher(d, data)

\* C4: writing an unchanged value is a no-op.  A write whose data has the
\* hash key of the element the Variable slot holds changes no slot (elements,
\* fingerprint, links), no registry and no cache, and a read of any slot
\* recorded on the written slot invokes no method afterwards.
SameValueWriteIsNoOp ==
    [][last'.op \in {"write", "write_same"} =>
        \A instance \in objs, d \in {"v", "c"} : \A data \in Inputs(instance, d) :
            (SameKey(instance, d, data) /\ Write(instance, d, data))
                => /\ UNCHANGED <<slots, registry, cache>>
                   /\ \A t \in slots[<<instance, d>>].associated_slots :
                        GetElements(Current, t[1], t[2]).st.calls = NoCalls]_vars

\* C4 witness: set_elements has just returned early, in a state where every
\* Variable slot of the two instances has Property slots recorded on it
SameValueWriteIsNoOpWitness ==
    /\ last.op = "write_same"
    /\ objs = Objs
    /\ \A s \in VariableSlots : (s[1] \in Objs) => slots[s].associated_slots # {}

\* the read of the Property slot t in the state a step leaves
ReadAfter(t) == GetElements(Current', t[1], t[2])

\* C5 as stated: a step that gives a populated Variable slot other elements
\* makes the next read of every Property slot that had reached it invoke the
\* Property's method, whatever other instances have computed before.
RecomputeAfterWrite ==
    [][\A s \in VariableSlots :
        Rewritten(s) => \A t \in Readers(s) : ReadAfter(t).st.calls[t[2]] >= 1]_vars

\* C5: invalidation forces a new lookup, not always a new computation.  After
\* a step that gives a populated Variable slot other elements, every Property
\* slot that had reached it is empty, and the next read of it invokes the
\* Property's method exactly once when the descriptor's Cache holds no entry
\* under the fingerprint of the new inputs; when it holds one (another
\* populated slot of the same descriptor keeps that fingerprint alive) the
\* read invokes the method zero times and the slot gets the cached elements.
RecomputeUnlessCached ==
    [][\A s \in VariableSlots :
        Rewritten(s) => \A t \in Readers(s) :
            /\ ~slots'[t].populated
            /\ LET got == ReadAfter(t)
                   key == got.st.slots[t].parameter_key
                   holders == {u \in PropertySlots \ {t} :
                                  /\ u[2] = t[2]
                                  /\ slots'[u].populated
                                  /\ slots'[u].parameter_key = key}
               IN  IF key \subseteq CacheKeys(cache'[t[2]])
                   THEN /\ got.st.calls[t[2]] = 0
                        /\ holders # {}
                        /\ \A k \in key :
                                CacheGet(cache'[t[2]], k) = {got.st.slots[t].elements}
                   ELSE got.st.calls[t[2]] = 1]_vars

\* C5 witness: a write has just emptied a Property slot, and a read of an
\* empty Property slot of a constructed instance would invoke no method at
\* all: another instance has computed the Property for the same inputs
RecomputeUnlessCachedWitness ==
    /\ last.op = "write" /\ last.expired >= 1
    /\ \E t \in PropertySlots :
        /\ t[1] \in objs
        /\ ~slots[t].populated
        /\ GetElements(Current, t[1], t[2]).st.calls = NoCalls

\* C6: one instance, one recomputation.  While instance 1 is the only
\* instance, after a step that gives one of its populated Variable slots
\* other elements, the first read of every Property slot that had reached it
\* invokes the Property's method exactly once and a second read invokes
\* nothing more.
SingleInstanceRecomputesOnce ==
    [][objs' = {1} =>
        \A s \in VariableSlots :
            Rewritten(s) => \A t \in Readers(s) :
                LET first == ReadAfter(t)
                    second == GetElements(first.st, t[1], t[2])
                IN  /\ first.st.calls[t[2]] = 1
                    /\ second.st.calls = first.st.calls
                    /\ second.elements = first.elements]_vars

\* C6 witness: with a single instance, a read has just recomputed _p_ from a
\* written content of _v_ whose result differs from the default's
SingleInstanceRecomputesOnceWitness ==
    /\ objs = {1}
    /\ last.op = "read" /\ last.calls = 1 /\ last.populated = 1
    /\ slots[<<1, "v">>].populated /\ slots[<<1, "v">>].elements[1].val = 1
    /\ slots[<<1, "p">>].populated /\ slots[<<1, "p">>].elements[1].val = 1

\* the descriptors whose hasher is a content hash
ContentHashed == {d \in Descs : \A x \in Vals : Hasher(d, [addr |-> 0, val |-> x]) = x}

\* the handles the slots of descriptor d hold
Held(d) == UNION {RangeOf(slots[<<o, d>>].elements) : o \in AllObjs}

\* C7: deduplication.  For a content-hashed descriptor, any two handles held
\* by slots (of any instances) that wrap equal contents are the identical
\* handle, wrapping one value object; handles registered under unequal hash
\* keys are distinct handles wrapping distinct objects; and every handle is
\* registered under the hash key of the value it wraps.
Deduplication ==
    \A d \in ContentHashed : \A h1, h2 \in Held(d) :
        /\ h1.key = Hasher(d, ValueOf(h1))
        /\ (h1.val = h2.val) => (h1 = h2)
        /\ (h1.key # h2.key) => (h1 # h2 /\ h1.addr # h2.addr)

\* C7 witness: both instances were assigned the content 1 and computed _p_
\* from it, and hold one handle each for _v_ and for _p_, while the other
\* content is not held
DeduplicationWitness ==
    /\ objs = Objs
    /\ \A o \in Objs : slots[<<o, "v">>].populated /\ slots[<<o, "p">>].populated
    /\ slots[<<1, "v">>].elements[1].val = 1
    /\ Cardinality(Held("v")) = 1
    /\ Cardinality(Held("p")) = 1

\* the live handles of a registry: those a slot or a Cache entry references
Live(n) ==
    IF n[1] = "element" THEN LiveElements(slots, cache[n[2]], n[2])
    ELSE LiveParameterKeys(slots, n[2])

\* the values a caller or a method can hand to the element registry of d
Registrable(d) == {[addr |-> a, val |-> x] : a \in 1..(OverflowBase + 1), x \in Vals}

\* C8: registry uniqueness.  In every reachable state every registry holds
\* exactly its live handles, at most one per key; and register on that
\* registry returns the handle it holds under an equal key and leaves the
\* table alone, or, when it holds none, adds one new handle wrapping the
\* given value and returns it.
RegistryUniqueness ==
    \A n \in RegNames :
        /\ registry[n] = Live(n)
        /\ \A h1, h2 \in Live(n) : (h1.key = h2.key) => (h1 = h2)
        /\ n[1] = "element" =>
            \A value \in Registrable(n[2]) :
                LET key == Hasher(n[2], value)
                    r == Register(registry[n], n, key, value)
                IN  IF \E h \in registry[n] : h.key = key
                    THEN r.table = registry[n] /\ r.handle \in registry[n]
                                               /\ r.handle.key = key
                    ELSE /\ r.handle \notin registry[n]
                         /\ r.table = registry[n] \cup {r.handle}
                         /\ ValueOf(r.handle) = value /\ r.handle.key = key

\* C8 witness: a write has just populated a slot of _v_ with the handle the
\* other instance already held, and the registry of _v_ holds that one handle
RegistryUniquenessWitness ==
    /\ last.op = "write" /\ last.populated = 1
    /\ objs = Objs
    /\ slots[<<1, "v">>].populated
    /\ slots[<<1, "v">>].elements = slots[<<2, "v">>].elements
    /\ registry[ElementReg("v")] = RangeOf(slots[<<1, "v">>].elements)

\* C9: Cache bound.  The Cache never holds more entries than its capacity; a
\* set at full capacity removes exactly the first entry in insertion order,
\* keeps the others in their order and appends the new entry; a set below
\* capacity removes nothing.
CacheBound ==
    /\ [](Len(ucache) <= UnitCapacity)
    /\ [][ulast'.op = "set" =>
            LET new == [key |-> ulast'.key, value |-> ulast'.key * 10]
            IN  IF Len(ucache) = UnitCapacity
                THEN /\ ulast'.removed = {ucache[1].key}
                     /\ ucache' = Append(SubSeq(ucache, 2, Len(ucache)), new)
                ELSE /\ ulast'.removed = {}
                     /\ ucache' = Append(ucache, new)]_vars

\* C9 witness: a set at full capacity has just removed an entry
CacheBoundWitness ==
    /\ ulast.op = "set" /\ Cardinality(ulast.removed) = 1
    /\ Len(ucache) = UnitCapacity

\* C10: eviction is first-in-first-out.  A get changes neither the entries
\* nor their order, and a set at full capacity removes the first entry in
\* insertion order also when that entry is the one hit most recently.
EvictionIsFIFO ==
    [][/\ ulast'.op = "get" => ucache' = ucache
       /\ (ulast'.op = "set" /\ Len(ucache) = UnitCapacity /\ uhit = ucache[1].key)
            => /\ uhit \notin CacheKeys(ucache')
               /\ \A i \in 2..Len(ucache) : ucache[i].key \in CacheKeys(ucache')]_vars

\* C10 witness: a set has just removed the entry that the most recent get
\* had hit, while an entry that was not hit since stays
EvictionIsFIFOWitness ==
    /\ ulast.op = "set" /\ ulast.recent # 0
    /\ ulast.removed = {ulast.recent}
    /\ Len(ucache) = UnitCapacity

\* C11: read-only enforcement.  In every reachable state, set_elements on
\* the slot of a Property raises, for any data, and leaves every slot
\* (elements, fingerprint, links), every Cache and every registry as they
\* were; and a step that is such a failed write changes none of them.
ReadOnlyEnforcement ==
    /\ [](\A instance \in objs, d \in Descs : \A data \in Inputs(instance, d) :
            ~IsVariable(d) =>
                /\ TrySetElements(Current, instance, d, Decomposer(d, data)).raised
                /\ TrySetElements(Current, instance, d, Decomposer(d, data)).st = Current)
    /\ [][last'.op = "write_error" => UNCHANGED <<slots, registry, cache>>]_vars

\* C11 witness: a write to a Property has just failed while Property slots
\* of both instances are populated and linked, and a Cache holds an entry
ReadOnlyEnforcementWitness ==
    /\ last.op = "write_error"
    /\ objs = Objs
    /\ \A o \in Objs : slots[<<o, "p">>].populated /\ slots[<<o, "r">>].populated
    /\ cache["p"] # << >>

\* C12: deletion is not supported.  In every reachable state, deleting any
\* attribute of any instance raises, whether its slot is empty or populated,
\* and leaves every slot, Cache and registry as they were; and a step that
\* is such a failed deletion changes none of them.
DeleteNotSupported ==
    /\ [](\A instance \in objs, d \in Descs :
            /\ Delete(Current, instance, d).raised
            /\ Delete(Current, instance, d).st = Current)
    /\ [][last'.op = "delete_error" => UNCHANGED <<slots, registry, cache>>]_vars

\* C12 witness: a deletion has just failed on an instance that has both
\* populated and empty slots
DeleteNotSupportedWitness ==
    /\ last.op = "delete_error"
    /\ \E o \in objs : /\ slots[<<o, "p">>].populated
                        /\ slots[<<o, "v">>].populated
                        /\ ~slots[<<o, "r">>].populated


\* a step writes the Variable _v_ of instance x: the slot was set
Writes(x) ==
    /\ last'.op = "write"
    /\ slots'[<<x, "v">>].elements # slots[<<x, "v">>].elements

\* C13: copy independence on write.  Once the copy exists, a step that
\* writes a Variable of the copy leaves every slot of its source exactly as
\* it was (elements, fingerprint, links: nothing expired, nothing
\* recomputed), and a step that writes a Variable of the source leaves every
\* slot of the copy exactly as it was.
CopyIndependence ==
    [][(CopyId \in objs) =>
        \A x \in {CopySource, CopyId} : \A y \in {CopySource, CopyId} \ {x} :
            Writes(x) => \A d \in Descs : (slots'[<<y, d>>] = slots[<<y, d>>])]_vars

\* C13 witness: a write to the copy has just emptied its slot of _p_ while
\* the slot of _p_ of the source, and the slots of _r_ of both, populated
\* before, stay populated
CopyIndependenceWitness ==
    /\ CopyId \in objs
    /\ last.op = "write" /\ last.expired = 1
    /\ slots[<<CopySource, "p">>].populated /\ slots[<<CopySource, "r">>].populated
    /\ ~slots[<<CopyId, "p">>].populated /\ slots[<<CopyId, "r">>].populated
    /\ slots[<<CopyId, "v">>].elements # slots[<<CopySource, "v">>].elements

\* the contents of a tuple of values
Contents(elements) == [i \in 1..Len(elements) |-> elements[i].val]

CacheSetPrecondition ==
    /\ \A d \in Descs : Len(cache[d]) = Cardinality(CacheKeys(cache[d]))
    /\ \A instance \in objs, d \in Descs :
        /\ GetElements(Current, instance, d).st.asserted
        /\ LET after == GetElements(Current, instance, d).st.cache
           IN  \A e \in Descs : Len(after[e]) = Cardinality(CacheKeys(after[e]))

\* C15 witness: a read has just computed and inserted a result into a full
\* Cache, and a populated slot of _p_ holds a fingerprint whose entry was
\* removed, so that the fingerprint can be looked up and inserted again
CacheSetPreconditionWitness ==
    /\ last.op = "read" /\ last.calls >= 1
    /\ Len(cache["p"]) = CacheCapacity
    /\ \E o \in objs :
        /\ slots[<<o, "p">>].populated
        /\ ~(slots[<<o, "p">>].parameter_key \subseteq CacheKeys(cache["p"]))

\* the descriptors with the freeze flag off
Unfrozen == {d \in Descs : ~Freeze(d)}

\* C16: a descriptor that is not frozen never caches.  In every reachable
\* state the Cache of such a descriptor is empty and stays empty over any
\* read, and two slots of it on different instances never hold the same
\* element: a result computed for one instance is not reused for another.
UnfrozenNeverCached ==
    \A d \in Unfrozen :
        /\ cache[d] = << >>
        /\ \A instance \in objs : GetElements(Current, instance, d).st.cache[d] = << >>
        /\ \A o1, o2 \in objs :
            (o1 # o2 /\ slots[<<o1, d>>].populated /\ slots[<<o2, d>>].populated)
                => slots[<<o1, d>>].elements # slots[<<o2, d>>].elements

\* C16 witness: both instances hold _r_ computed from the same inputs (one
\* fingerprint), each its own result
UnfrozenNeverCachedWitness ==
    /\ objs = Objs
    /\ last.op = "read" /\ last.calls >= 1
    /\ \A o \in Objs : slots[<<o, "r">>].populated
    /\ slots[<<1, "r">>].parameter_key = slots[<<2, "r">>].parameter_key
    /\ slots[<<1, "r">>].elements # slots[<<2, "r">>].elements

\* C17 as stated: every read of a Property that is not frozen invokes its
\* method, also a read of a slot that is populated.
UnfrozenAlwaysRecomputes ==
    \A d \in Unfrozen : \A instance \in objs :
        ~IsVariable(d) => GetElements(Current, instance, d).st.calls[d] >= 1

\* C17: a Property that is not frozen is still kept in its slot.  A read of
\* an empty slot of such a Property invokes its method exactly once (the
\* Cache never serves it) and populates the slot; a read of a populated slot
\* invokes nothing and returns the elements the slot holds.
UnfrozenRecomputesWhenEmpty ==
    \A d \in Unfrozen : \A instance \in objs :
        ~IsVariable(d) =>
            LET got == GetElements(Current, instance, d)
            IN  /\ got.st.slots[<<instance, d>>].populated
                /\ IF slots[<<instance, d>>].populated
                   THEN /\ got.st.calls = NoCalls
                        /\ got.elements = Values(slots[<<instance, d>>].elements)
                   ELSE got.st.calls[d] = 1

\* C17 witness: a read of a Property has just found its slot populated and
\* invoked nothing, while _r_ is populated on every instance
UnfrozenRecomputesWhenEmptyWitness ==
    /\ last.op = "read" /\ last.calls = 0 /\ last.populated = 0
    /\ objs = Objs
    /\ \A o \in Objs : slots[<<o, "r">>].populated
    /\ slots[<<1, "r">>].parameter_key # slots[<<2, "r">>].parameter_key

\* a declaration step of the class body, by kind and parameter count
DeclaredVariable == dlast.op = "declare" /\ dlast.is_variable
DeclaredProperty == dlast.op = "declare" /\ ~dlast.is_variable

\* no instance of a rejected class can be read
NoInstance == \A name \in DeclNames : ~ENABLED ReadDeclared(name)

\* C18: declaring a Variable whose method takes a parameter raises in the
\* class body: nothing is bound, the class is rejected and no instance of it
\* is ever read.
VariableWithParametersRejected ==
    (DeclaredVariable /\ dlast.nparams > 0) =>
        dlast.raised /\ klass = "rejected" /\ NoInstance

VariableWithParametersRejectedWitness ==
    /\ DeclaredVariable /\ dlast.nparams = 2
    /\ dlast.is_static /\ dlast.hasher = "id" /\ dlast.name \in DeclNames
    /\ dlast.raised /\ klass = "rejected"

\* the other assertions of the descriptor's construction, on the attempt of
\* the last step
OtherAssertionsPass ==
    /\ dlast.is_static
    /\ (dlast.hasher = "id" \/ dlast.freeze)
    /\ StartsWithUnderscore(dlast.name) /\ EndsWithUnderscore(dlast.name)
    /\ ~ContainsDunder(dlast.name)

Unresolvable ==
    \E name \in DeclNames :
        decls[name] # {} /\ ReadOutcome(decls, name, {}) = "unresolved"

VariableNeverEmptied ==
    /\ [](\A s \in VariableSlots : \A t \in slots[s].associated_slots : ~IsVariable(t[2]))
    /\ [](\A instance \in objs, d \in Descs :
            IsVariable(d) =>
                /\ GetElements(Current, instance, d).st.slots[<<instance, d>>].populated
                /\ ~slots[<<instance, d>>].populated
                    => GetElements(Current, instance, d).elements[1].val = Method(d, << >>))
    /\ [][\A s \in SlotIds :
            (slots[s].populated /\ ~slots'[s].populated) => ~IsVariable(s[2])]_vars

\* C21 witness: a write has just emptied Property slots while a Variable slot
\* that was populated from the default factory (it holds the fingerprint of
\* the empty parameter tuple) is still populated and has a Property slot
\* recorded on it
VariableNeverEmptiedWitness ==
    /\ last.op = "write" /\ last.expired >= 1
    /\ \E s \in VariableSlots :
        /\ slots[s].populated /\ slots[s].parameter_key # {}
        /\ slots[s].associated_slots # {}

\* the attributes of the constructed instances, and the pairs of them whose
\* chains reach no common Variable slot
Attributes == {a \in SlotIds : a[1] \in objs}

Independent(a, b) ==
    DependsOn(slots, a[1], a[2]) \cap DependsOn(slots, b[1], b[2]) = {}

\* the read of a and then of b, from the current state
ReadBoth(a, b) ==
    LET first == GetElements(Current, a[1], a[2])
        second == GetElements(first.st, b[1], b[2])
    IN  [first |-> first.elements, second |-> second.elements, slots |-> second.st.slots]

\* C22: reads of attributes with non-overlapping dependencies commute.  For
\* any two attributes whose chains reach no common Variable slot, the read
\* of one and then of the other returns for each the value the opposite
\* order returns, and both orders leave every slot with the same elements.
IndependentReadsCommute ==
    \A a, b \in Attributes :
        Independent(a, b) =>
            LET ab == ReadBoth(a, b)
                ba == ReadBoth(b, a)
            IN  /\ ab.first = ba.second
                /\ ab.second = ba.first
                /\ \A s \in SlotIds : ab.slots[s].elements = ba.slots[s].elements

\* C22 witness: two instances, each its own child, hold equal contents in
\* _v_ after a write, and their Property slots are empty: the reads of _p_
\* and of _r_ of the one and of the other are independent and each
\* computes or meets the other's cache entry
IndependentReadsCommuteWitness ==
    /\ last.op = "write"
    /\ objs = Objs
    /\ \A o \in Objs : slots[<<o, "c">>].elements[1].val = o
    /\ slots[<<1, "v">>].populated /\ slots[<<1, "v">>].elements = slots[<<2, "v">>].elements
    /\ \A t \in PropertySlots : ~slots[t].populated
    /\ Independent(<<1, "r">>, <<2, "r">>) /\ Independent(<<1, "p">>, <<2, "p">>)

\* the data a caller can write to the Variable slot s, in the state st, that
\* differ from what the slot holds
OtherData(st, s) ==
    IF s[2] = "v"
    THEN {[addr |-> Alloc(st, "v", s[1], x), val |-> x] :
            x \in {y \in Vals : y # st.slots[s].elements[1].val}}
    ELSE {[addr |-> x, val |-> x] : x \in {y \in objs : y # st.slots[s].elements[1].val}}

\* C23: a cache hit keeps the dependencies.  When the read of an empty
\* Property slot finds its fingerprint in the descriptor's Cache (the
\* Property's method is not invoked), the slot is populated with the cached
\* tuple and that fingerprint, it is linked in both directions with every
\* Variable slot its chains reach, and a write of other data to any of them
\* empties it.
CacheHitKeepsDependencies ==
    \A t \in PropertySlots :
        (t[1] \in objs /\ ~slots[t].populated) =>
            LET got == GetElements(Current, t[1], t[2])
                after == got.st.slots
            IN  got.st.calls[t[2]] = 0 =>
                    /\ after[t].populated
                    /\ after[t].parameter_key # {}
                    /\ \A k \in after[t].parameter_key :
                            CacheGet(cache[t[2]], k) = {after[t].elements}
                    /\ after[t].associated_slots = DependsOn(slots, t[1], t[2])
                    /\ after[t].associated_slots # {}
                    /\ \A s \in after[t].associated_slots :
                        /\ t \in after[s].associated_slots
                        /\ \A data \in OtherData(got.st, s) :
                            ~SetElements(got.st, s[1], s[2], Decomposer(s[2], data)).slots[t].populated

\* C23 witness: a read has just populated one slot without invoking any
\* method, with the tuple another instance's slot of the same Property
\* holds, and the slot is linked
CacheHitKeepsDependenciesWitness ==
    /\ last.op = "read" /\ last.calls = 0 /\ last.populated = 1
    /\ \E o1, o2 \in objs :
        /\ o1 # o2
        /\ slots[<<o1, "p">>].populated /\ slots[<<o2, "p">>].populated
        /\ slots[<<o1, "p">>].elements = slots[<<o2, "p">>].elements
        /\ slots[<<o1, "p">>].associated_slots = {<<o1, "v">>}
        /\ slots[<<o2, "p">>].associated_slots = {<<o2, "v">>}

\* C24: dependency links are symmetric and bipartite.  In every reachable
\* state, slot s is recorded on slot t exactly when t is recorded on s, and
\* every link joins a Variable slot with a Property slot: a Property read
\* through another Property is linked with that Property's Variable slots.
LinksSymmetricBipartite ==
    \A s, t \in SlotIds :
        /\ (t \in slots[s].associated_slots) <=> (s \in slots[t].associated_slots)
        /\ (t \in slots[s].associated_slots) => (IsVariable(s[2]) # IsVariable(t[2]))

\* C24 witness: a slot of _r_ that read _p_ of another instance is linked
\* with its own _c_ and with the other instance's _v_, while the slot of _p_
\* it read is populated and linked with that _v_ too
LinksSymmetricBipartiteWitness ==
    \E o1, o2 \in objs :
        /\ o1 # o2
        /\ slots[<<o1, "r">>].associated_slots = {<<o1, "c">>, <<o2, "v">>}
        /\ slots[<<o2, "p">>].associated_slots = {<<o2, "v">>}
        /\ slots[<<o2, "v">>].associated_slots = {<<o1, "r">>, <<o2, "p">>}

\* C25 as stated: the fingerprint of a Variable slot is None in every
\* reachable state.
VariableFingerprintNone ==
    \A s \in VariableSlots : slots[s].parameter_key = {}

\* the Variable slot s gets new elements in the step
Assigned(s) ==
    /\ last'.op \in {"write", "new"}
    /\ slots'[s].populated
    /\ (~slots[s].populated \/ slots'[s].elements # slots[s].elements)

\* C25: the fingerprint of a Variable slot is None after a write, which
\* leaves the slot with no dependents and recorded on no slot; a Variable
\* slot populated from the default factory by a read holds the registered
\* fingerprint of the empty parameter tuple, and has no dependents when the
\* read was a read of the Variable itself.  No Variable slot ever holds
\* another fingerprint.
VariableFingerprint ==
    /\ [](\A s \in VariableSlots :
            /\ \A k \in slots[s].parameter_key : k.key = << >>
            /\ ~slots[s].populated => slots[s].parameter_key = {})
    /\ [][\A s \in VariableSlots :
            Assigned(s) =>
                /\ slots'[s].parameter_key = {}
                /\ slots'[s].associated_slots = {}
                /\ \A t \in SlotIds : s \notin slots'[t].associated_slots]_vars
    /\ [][\A s \in VariableSlots :
            (last'.op \in {"read", "read_variable"} /\ ~slots[s].populated /\ slots'[s].populated)
                => /\ slots'[s].parameter_key # {}
                   /\ (last'.op = "read_variable") => (slots'[s].associated_slots = {})]_vars

\* C25 witness: a read of a never-written Variable has just populated its
\* slot from the default factory, next to a written slot of the same
\* Variable on the other instance
VariableFingerprintWitness ==
    /\ last.op = "read_variable" /\ last.populated = 1
    /\ \E o1, o2 \in objs :
        /\ slots[<<o1, "v">>].populated /\ slots[<<o1, "v">>].parameter_key # {}
        /\ slots[<<o2, "v">>].populated /\ slots[<<o2, "v">>].parameter_key = {}

\* two trees have the same nested shape and, leaf by leaf, the same object
RECURSIVE SameShapeAndLeaves(_, _)
SameShapeAndLeaves(t1, t2) ==
    IF t1.isleaf /\ t2.isleaf THEN t1.content.addr = t2.content.addr
    ELSE IF t1.isleaf \/ t2.isleaf THEN FALSE
    ELSE /\ Len(t1.children) = Len(t2.children)
         /\ \A i \in 1..Len(t1.children) : SameShapeAndLeaves(t1.children[i], t2.children[i])

\* the handles the two reads get from the descriptor's registry of
\* parameter keys, the second read registering after the first
FirstFingerprint == RegisterParameterKey({}, "p", ParameterKeyOf(ttrees[1]))
SecondFingerprint == RegisterParameterKey(FirstFingerprint.table, "p", ParameterKeyOf(ttrees[2]))

\* C26: fingerprint identity.  Two reads of one descriptor get the same
\* fingerprint handle exactly when, parameter by parameter, their trees have
\* the same nested shape and the same objects at the leaves; the objects
\* the chains passed through do not count.
FingerprintIdentity ==
    troots # <<0, 0>> =>
        ((FirstFingerprint.handle = SecondFingerprint.handle)
            <=> \A i \in 1..NumChains : SameShapeAndLeaves(ttrees[1][i], ttrees[2][i]))

\* C26 witness: the reads of two instances got the same handle although a
\* chain passed through different objects, which the nodes of the trees
\* still hold
FingerprintIdentityWitness ==
    /\ troots # <<0, 0>> /\ troots[1] # troots[2]
    /\ FirstFingerprint.handle = SecondFingerprint.handle
    /\ \E i \in 1..NumChains :
        /\ ~ttrees[1][i].isleaf /\ Len(ttrees[1][i].children) = 2
        /\ ttrees[1][i].content # ttrees[2][i].content

\* the tree a step leaves when every leaf present at its start is turned,
\* and nothing else
RECURSIVE Turned(_, _)
Turned(tree, name) ==
    IF ~tree.isleaf
    THEN [tree EXCEPT !.children = [i \in 1..Len(tree.children) |-> Turned(tree.children[i], name)]]
    ELSE IF IsPluralAttr(name)
         THEN [tree EXCEPT !.isleaf = FALSE,
                           !.children = [i \in 1..Len(ElementsOfAttr(name, tree.content.addr)) |->
                                            Tree(ElementsOfAttr(name, tree.content.addr)[i])]]
         ELSE [tree EXCEPT !.content = ElementsOfAttr(name, tree.content.addr)[1]]

\* C27: chain-step traversal.  A step visits the leaves present at its
\* start, each once, in depth-first left-to-right order; a singular step
\* replaces the content of each, a plural step gives each one child per
\* element (none for an empty tuple); the children made during the step are
\* not visited in it and nothing else of the tree changes.
ChainStepTraversal ==
    [][\A c \in 1..2, i \in 1..NumChains :
        (troots # <<0, 0>> /\ tchains'[i] # tchains[i]) =>
            /\ tlast'.visited[c] = IterLeaves(ttrees[c][i])
            /\ ttrees'[c][i] = Turned(ttrees[c][i], tlast'.name)
            /\ \A j \in 1..Len(tlast'.visited[c]) :
                LET old == TreeAt(ttrees[c][i], tlast'.visited[c][j])
                    new == TreeAt(ttrees'[c][i], tlast'.visited[c][j])
                    elements == ElementsOfAttr(tlast'.name, old.content.addr)
                IN  IF IsPluralAttr(tlast'.name)
                    THEN /\ ~new.isleaf /\ Len(new.children) = Len(elements)
                         /\ \A k \in 1..Len(elements) : new.children[k] = Tree(elements[k])
                    ELSE new.isleaf /\ new.content = elements[1]]_vars

\* C27 witness: a plural step has just visited two leaves of a tree, giving
\* one of them a child and the other none
ChainStepTraversalWitness ==
    /\ IsPluralAttr(tlast.name)
    /\ \E c \in 1..2 :
        /\ Len(tlast.visited[c]) = 2
        /\ \E p1, p2 \in RangeOf(tlast.visited[c]) :
            /\ TreeAt(ttrees[c][tlast.chain], p1).children = << >>
            /\ Len(TreeAt(ttrees[c][tlast.chain], p2).children) = 1

\* the slots the read of slot s reads directly, by the declared chains:
\* the first name on the instance itself, the second on the instance its
\* _a_ holds
DirectDeps(s) ==
    LET chain == RChainOf(s[2])
    IN  {<<s[1], chain[k]>> : k \in 1..Len(chain) \cap {1}}
            \cup {<<rlink[s[1]], chain[k]>> : k \in 1..Len(chain) \cap {2}}

\* the slots reached from the slots of from in one step or more
RECURSIVE ReachedFrom(_, _)
ReachedFrom(from, seen) ==
    LET next == UNION {DirectDeps(s) : s \in from} \ seen
    IN  IF next = {} THEN seen ELSE ReachedFrom(next, seen \cup next)

DependsOnSlots(s) == ReachedFrom({s}, {})

\* the dependency relation is cyclic at or below the slot s
ReachesCycle(s) ==
    \E t \in DependsOnSlots(s) \cup {s} : t \in DependsOnSlots(t)

\* a slot is being read by two frames of the stack
Reentered ==
    \E j, k \in 1..Len(rstack) :
        j < k /\ <<rstack[j].inst, rstack[j].name>> = <<rstack[k].inst, rstack[k].name>>

\* C28: termination of reads.  A read returns whenever the dependency
\* relation of the declared chains over the instances is acyclic at and
\* below the slot read, with fewer calls in progress than there are slots
\* plus one; when the slot read depends on itself, or reaches a slot that
\* does, the read never returns: a slot being read is entered again while
\* it is empty, nothing stops the recursion, and it runs until the
\* interpreter's limit.
ReadsTerminate ==
    /\ (rstatus = "running" /\ ~ReachesCycle(rroot)) ~> (rstatus = "idle")
    /\ (rstatus = "running" /\ ReachesCycle(rroot)) ~> (rstatus = "overflow")
    /\ [](Reentered => ReachesCycle(rroot))
    /\ [](rstatus = "overflow" => (Reentered /\ ReachesCycle(rroot)))
    /\ [][(rstatus = "running" /\ rstatus' = "idle") => ~ReachesCycle(rroot)]_vars

\* C28 witness: the read of a Property whose chain leads, through another
\* instance, back to itself has reached the interpreter's limit
ReadsTerminateWitness ==
    /\ rstatus = "overflow"
    /\ rroot[2] = "b" /\ rclass["b"] = <<"a", "q">> /\ rclass["q"] = <<"a", "b">>
    /\ rlink[1] = 2 /\ rlink[2] = 1

\* C29: the former lazy_property.  __get__ returns the value stored for the
\* instance's basedata tuple, and invokes the property's method only when
\* no value is stored for that tuple.
LegacyReadInvokesOnMiss ==
    llast.op = "get" =>
        /\ llast.result # {}
        /\ llast.cached => llast.calls = 0

\* the live handles of descriptor d registered under the hash key of value
LiveUnderKeyOf(d, value) == Lookup(registry[ElementReg(d)], Hasher(d, value))

\* C30: the first registered value wins.  A write of data whose hash key is
\* the key of a live handle leaves the slot holding that handle, and the
\* next read returns the object registered earlier, not the object written
\* (another object when the descriptor hashes by content); and a read that
\* computes a value whose key is the key of a live handle populates the slot
\* with that handle.
FirstRegisteredWins ==
    /\ [][last'.op \in {"write", "write_same"} =>
            \A instance \in objs, d \in {"v", "c"} : \A data \in Inputs(instance, d) :
                (LiveUnderKeyOf(d, data) # {} /\ Write(instance, d, data))
                    => \A h \in LiveUnderKeyOf(d, data) :
                        /\ slots'[<<instance, d>>].elements = <<h>>
                        /\ GetElements(Current', instance, d).elements = <<ValueOf(h)>>
                        /\ (d = "v") => (h.addr # data.addr)]_vars
    /\ [](\A instance \in objs, d \in Descs :
            ~slots[<<instance, d>>].populated =>
                LET h == GetElements(Current, instance, d).st.slots[<<instance, d>>].elements[1]
                IN  LiveUnderKeyOf(d, ValueOf(h)) # {} => h \in LiveUnderKeyOf(d, ValueOf(h)))

\* C30 witness: a write has just given a populated slot of _v_ the handle
\* the other instance's slot holds, both slots having been written
FirstRegisteredWinsWitness ==
    /\ last.op = "write" /\ last.populated = 0
    /\ objs = Objs
    /\ slots[<<1, "v">>].populated
    /\ slots[<<1, "v">>].elements = slots[<<2, "v">>].elements
    /\ slots[<<1, "v">>].parameter_key = {} /\ slots[<<2, "v">>].parameter_key = {}

\* the slots of descriptor d that hold the default (populated by a first
\* read: they carry the parameter key of that read)
HoldDefault(d) == {s \in DefaultSlots : s[2] = d /\ vslots[s].parameter_key # {}}

\* C31: shared defaults.  For a frozen Variable the result of the default
\* factory is cached under the fingerprint of the empty parameter tuple:
\* while a slot holds the default, the Cache holds it under that key, first
\* reads on other instances return the same handle and do not invoke the
\* factory.  For a Variable that is not frozen nothing is cached, every
\* first read invokes the factory, and no two instances hold the same
\* default object.
SharedDefaults ==
    /\ [](\A d \in DefaultDescs : Freeze(d) =>
            \A s \in HoldDefault(d) :
                /\ Len(vcache[d]) = 1
                /\ vcache[d][1].key \in vslots[s].parameter_key
                /\ vcache[d][1].key.key = << >>
                /\ vcache[d][1].value = vslots[s].elements
                /\ \A t \in HoldDefault(d) : vslots[t].elements = vslots[s].elements)
    /\ [][\A d \in DefaultDescs : Freeze(d) =>
            ((vlast'.op = "first_read" /\ vlast'.d = d /\ vcache[d] # << >>)
                => vlast'.calls = 0)]_vars
    /\ [](\A d \in DefaultDescs : ~Freeze(d) =>
            /\ vcache[d] = << >>
            /\ \A s, t \in HoldDefault(d) :
                (s # t) => (RangeOf(vslots[s].elements) \cap RangeOf(vslots[t].elements) = {}))
    /\ [][\A d \in DefaultDescs : ~Freeze(d) =>
            ((vlast'.op = "first_read" /\ vlast'.d = d) => vlast'.calls = 1)]_vars

\* C31 witness: all instances hold the default of both Variables, and the
\* last first read, of the frozen one, did not invoke the factory
SharedDefaultsWitness ==
    /\ \A s \in DefaultSlots : vslots[s].parameter_key # {}
    /\ vlast.op = "first_read" /\ vlast.d = "f" /\ vlast.calls = 0
    /\ Cardinality({vslots[<<i, "u">>].elements : i \in Holders}) = NumHolders
    /\ Cardinality({vslots[<<i, "f">>].elements : i \in Holders}) = 1

\* a property depends on a basedata directly or through other properties
RECURSIVE LegacyDependsOn(_, _)
LegacyDependsOn(p, b) ==
    \E k \in 1..Len(LParameters(p)) :
        \/ LParameters(p)[k] = b
        \/ LParameters(p)[k] \in LProperties /\ LegacyDependsOn(LParameters(p)[k], b)

\* the value an attribute of the former class has by its declaration
RECURSIVE LegacyDenotes(_, _, _)
LegacyDenotes(st, instance, descr) ==
    IF descr \in LBasedata THEN DataOf(LegacyGetData(st, instance, descr))
    ELSE LegacyMethod(descr, [k \in 1..Len(LParameters(descr)) |->
                                LegacyDenotes(st, instance, LParameters(descr)[k])])

\* the tuple of the basedata an instance has for a property
LegacyTupleOf(st, instance, p) ==
    [k \in 1..Len(Traverse(p)) |-> LegacyGetData(st, instance, Traverse(p)[k])]

Stage(tl, t) ==
    CASE tl[t].timeline_state = "None" -> 0
      [] tl[t].timeline_state = "AfterScheduled" -> 1
      [] tl[t].timeline_state = "AfterLaunched" -> 2
      [] tl[t].timeline_state = "AfterTerminated" -> 3

\* C33: the lifecycle of a timeline is monotone.  Its state only moves
\* forward through None, AfterScheduled, AfterLaunched, AfterTerminated;
\* schedule is accepted only in None, launch only in AfterScheduled and
\* terminate only in AfterLaunched, and each raises and changes nothing
\* otherwise; no timeline is scheduled or launched twice or leaves
\* AfterTerminated; terminated() implies launched() implies scheduled().
LifecycleMonotone ==
    /\ [][\A t \in Timelines : Stage(timelines', t) >= Stage(timelines, t)]_vars
    /\ [][(called'.op = "schedule") =>
            IF Stage(timelines, called'.t) = 0
            THEN ~called'.raised /\ Stage(timelines', called'.t) = 1
            ELSE called'.raised /\ timelines' = timelines]_vars
    /\ [][(called'.op = "launch") =>
            IF Stage(timelines, called'.t) = 1
            THEN ~called'.raised /\ Stage(timelines', called'.t) = 2
            ELSE called'.raised /\ timelines' = timelines]_vars
    /\ [][(called'.op = "terminate") =>
            IF Stage(timelines, called'.t) = 2
            THEN ~called'.raised /\ Stage(timelines', called'.t) = 3
            ELSE called'.raised /\ timelines' = timelines]_vars
    /\ [](\A t \in Timelines :
            /\ starts[t].schedules = (IF Stage(timelines, t) >= 1 THEN 1 ELSE 0)
            /\ starts[t].launches = (IF Stage(timelines, t) >= 2 THEN 1 ELSE 0)
            /\ Terminated(timelines, t) => Launched(timelines, t)
            /\ Launched(timelines, t) => Scheduled(timelines, t)
            /\ Scheduled(timelines, t) <=> (Stage(timelines, t) >= 1))

\* C33 witness: schedule was called on a timeline that has terminated, and
\* raised, while another timeline was scheduled by a play and is launched
LifecycleMonotoneWitness ==
    /\ called.op = "schedule" /\ called.raised
    /\ Terminated(timelines, called.t)
    /\ \E c \in Timelines \ {called.t} : Stage(timelines, c) = 2

\* the last iteration of the loop of timeline t entered before step n of a
\* call (0: none)
EnteredBefore(log, t, n) ==
    LET entries == {m \in 1..(n - 1) : log[m].ev = "iterate" /\ log[m].t = t}
    IN  IF entries = {} THEN 0 ELSE CHOOSE m \in entries : \A k \in entries : k <= m

\* every advance of a coroutine in a call comes, within its iteration, after
\* every child the timeline had was progressed, each child that had
\* terminated being removed at once, and right after a test of the progress
\* condition that found it None or true
ChildrenBeforeCoroutine(log) ==
    \A n \in 1..Len(log) : (log[n].ev = "send") =>
        LET t == log[n].t
            m == EnteredBefore(log, t, n)
        IN  /\ m > 0
            /\ \A j \in 1..Len(log[m].children) :
                \E k \in (m + 1)..(n - 1) :
                    log[k].ev = "child" /\ log[k].t = t /\ log[k].c = log[m].children[j]
            /\ \A k \in (m + 1)..(n - 1) :
                (log[k].ev = "child" /\ log[k].t = t /\ log[k].flag) =>
                    (log[k + 1].ev = "remove" /\ log[k + 1].t = t /\ log[k + 1].c = log[k].c)
            /\ \A k \in (m + 1)..(n - 1) : ~(log[k].ev = "send" /\ log[k].t = t)
            /\ log[n - 1].ev = "check" /\ log[n - 1].t = t /\ log[n - 1].flag

\* C34: the order inside _progress.  A scheduled timeline whose launch
\* condition is set and false stays as it is; in every iteration of the loop
\* of a launched timeline every child it has is progressed, and removed from
\* the children in that iteration when it has terminated, before the
\* construct coroutine is advanced; the coroutine is not advanced when the
\* progress condition is false, and the call then leaves the loop.
ProgressOrder ==
    [][(called'.op = "progress") =>
        LET done == Progress(TimelineCurrent, called'.t)
        IN  /\ ChildrenBeforeCoroutine(done.events)
            /\ \A t \in Timelines :
                (/\ timelines[t].timeline_state = "AfterScheduled"
                 /\ timelines[t].launch_condition # NoCondition
                 /\ ~Holds(timelines, timelines[t].launch_condition))
                    => timelines'[t] = timelines[t]
            /\ \A t \in Timelines :
                (/\ ~called'.raised
                 /\ timelines'[t].timeline_state = "AfterLaunched"
                 /\ \E n \in 1..Len(done.events) :
                        done.events[n].ev = "iterate" /\ done.events[n].t = t)
                    => /\ \A j \in 1..Len(timelines'[t].children) :
                            ~Terminated(timelines', timelines'[t].children[j])
                       /\ timelines'[t].progress_condition # NoCondition
                       /\ ~Holds(timelines', timelines'[t].progress_condition)]_vars

\* C34 witness: a call of _progress on the first timeline, which had
\* prepared the last timeline and played the second, has progressed both,
\* removed them as they terminated, advanced the coroutine to its end and
\* terminated
ProgressOrderWitness ==
    /\ called.op = "progress" /\ called.t = 1 /\ ~called.raised
    /\ scripts[1] = <<[op |-> "prepare", arg |-> NumTimelines], [op |-> "play", arg |-> 2]>>
    /\ scripts[2] = <<[op |-> "wait", arg |-> NumConditions]>>
    /\ \A t \in Timelines : Terminated(timelines, t)

\* the construct coroutine of timeline t is suspended in play(c)
AwaitsPlay(tl, t, c) ==
    /\ tl[t].timeline_state = "AfterLaunched"
    /\ tl[t].coroutine > 1
    /\ scripts[t][tl[t].coroutine - 1] = [op |-> "play", arg |-> c]

\* C35: play blocks on the child.  While the construct coroutine of a
\* launched timeline is suspended in play(child), the child is scheduled, it
\* is among the timeline's children until it has terminated, and the
\* timeline's progress condition is the child's terminated; no call resumes
\* the coroutine before the child has terminated (the timeline may be
\* terminated without its coroutine being resumed).
PlayBlocks ==
    /\ [](\A t, c \in Timelines : AwaitsPlay(timelines, t, c) =>
            /\ Scheduled(timelines, c)
            /\ Terminated(timelines, c) \/ c \in RangeOf(timelines[t].children)
            /\ timelines[t].progress_condition = [kind |-> "terminated", arg |-> c])
    /\ [][\A t, c \in Timelines :
            (AwaitsPlay(timelines, t, c) /\ timelines'[t].coroutine # timelines[t].coroutine)
                => Terminated(timelines', c)]_vars
    /\ [][\A t, c \in Timelines :
            (AwaitsPlay(timelines, t, c) /\ ~Terminated(timelines', c))
                => /\ timelines'[t].coroutine = timelines[t].coroutine
                   /\ \/ AwaitsPlay(timelines', t, c)
                      \/ Terminated(timelines', t)]_vars

\* C35 witness: _progress was called on the first timeline while its
\* coroutine was suspended in play of the second, which is launched and
\* has not terminated; the call returned without resuming the coroutine
PlayBlocksWitness ==
    /\ called.op = "progress" /\ called.t = 1 /\ ~called.raised
    /\ AwaitsPlay(timelines, 1, 2)
    /\ timelines[2].timeline_state = "AfterLaunched"
    /\ timelines[2].coroutine > 1

\* C36: liveness of a timeline.  With _progress called again and again on a
\* scheduled timeline while time passes, so that the conditions it waits for
\* come true, the timeline reaches AfterTerminated unless a call raises (its
\* coroutine, or one it plays, does not finish); a terminated timeline has
\* no launch, terminate or progress condition, and _progress on it changes
\* nothing.
TimelineTerminates ==
    /\ (timelines[1].timeline_state = "AfterScheduled")
            ~> (Terminated(timelines, 1)
                    \/ (called.op = "progress" /\ called.t = 1 /\ called.raised))
    /\ [](\A t \in Timelines : Terminated(timelines, t) =>
            /\ timelines[t].launch_condition = NoCondition
            /\ timelines[t].terminate_condition = NoCondition
            /\ timelines[t].progress_condition = NoCondition)
    /\ [][(called'.op = "progress" /\ Terminated(timelines, called'.t))
            => (timelines' = timelines /\ ~called'.raised)]_vars

\* C36 witness: the first timeline, scheduled with a launch condition, has
\* played the second, which waited, and a call of _progress has terminated
\* it after all conditions came true
TimelineTerminatesWitness ==
    /\ called.op = "progress" /\ called.t = 1 /\ ~called.raised
    /\ Terminated(timelines, 1) /\ Terminated(timelines, 2)
    /\ scripts[1] = <<[op |-> "wait", arg |-> NumConditions], [op |-> "play", arg |-> 2]>>
    /\ scripts[2] = <<[op |-> "wait", arg |-> NumConditions]>>
    /\ \A k \in Conditions : clock[k]

\* a scheduled timeline always terminates
TimelineAlwaysTerminates ==
    (timelines[1].timeline_state = "AfterScheduled") ~> Terminated(timelines, 1)

\* the nodes reached from the nodes of S along the children lists
RECURSIVE DagClosure(_, _)
DagClosure(S, k) ==
    IF k = 0
    THEN S
    ELSE DagClosure(S \cup UNION {RangeOf(dchildren[n]) : n \in S}, k - 1)

\* the nodes below n: its children, their children, and so on
Descendants(n) == DagClosure(RangeOf(dchildren[n]), NumNodes)

\* how often x occurs in a list
Occurrences(list, x) == Cardinality({i \in 1..Len(list) : list[i] = x})

\* C37: whatever calls of _bind_children and _unbind_children were made,
\* raising or not, no node is below itself, a node occurs in the children of
\* another exactly as often as the other occurs in its parents, and at most
\* once; and a call of _bind_children given the receiver, one of its
\* ancestors or one of its children raises ValueError.
DagWellFormed ==
    /\ [](\A n \in DagNodes : n \notin Descendants(n))
    /\ [](\A m, n \in DagNodes :
            /\ Occurrences(dchildren[m], n) = Occurrences(dparents[n], m)
            /\ Occurrences(dchildren[m], n) <= 1)
    /\ [][(/\ dcalled'.op = "bind"
           /\ \E i \in 1..Len(dcalled'.nodes) :
                LET node == dcalled'.nodes[i]
                IN  \/ node = dcalled'.self
                    \/ dcalled'.self \in Descendants(node)
                    \/ node \in RangeOf(dchildren[dcalled'.self]))
            => dcalled'.raised]_vars

\* C37 witness: the third node, bound under the second, which is bound under
\* the first, was asked to take the second and the first as children, and
\* the call raised
DagWellFormedWitness ==
    /\ dcalled = [op |-> "bind", self |-> 3, nodes |-> <<2, 1>>, raised |-> TRUE]
    /\ dchildren = [n \in DagNodes |-> IF n = NumNodes THEN << >> ELSE <<n + 1>>]

\* C38: a call that raises leaves the children and the parents of every node
\* as they were
ErrorAtomicity ==
    [][dcalled'.raised => (dchildren' = dchildren /\ dparents' = dparents)]_vars

=============================================================================
